---- MODULE Spec2Model ----
(***************************************************************************)
(* Model of the order engine and execution attribution pipeline of the     *)
(* trading application (src/trading-app/src/execution).                    *)
(*                                                                         *)
(* Spec       : one live session.  Orders are placed, the broker reports   *)
(*              them as Submitted, fills them, and every execution is      *)
(*              attributed by on_execution_update; executions are          *)
(*              redelivered by sync_executions.  Handlers run one at a     *)
(*              time.                                                      *)
(* SpecStream : the order-update stream: place_order statement by          *)
(*              statement, the feeder thread, its helper threads, the      *)
(*              bounded channel and the async consumer.                    *)
(*                                                                         *)
(* Quantities and prices are integers; average prices, which the code      *)
(* keeps as f64, are exact rationals <<numerator, denominator>> in lowest  *)
(* terms (floating-point rounding is not modelled).                        *)
(***************************************************************************)
EXTENDS Integers, Sequences, FiniteSets, TLC

\* ---------------------------------------------------------------- bounds
MaxOrders == 2
MaxQty == 2
MaxExecs == 3
MaxRedeliver == 1
MaxLive == 1
MaxPlace == 2
MaxEvents == 3
MaxBars == 4
MaxTarget == 2
MaxPos == 2
MaxRows == 2
MaxSyncs == 2
MaxReports == 3
MaxCommission == 2
MaxDays == 2
MaxTodayBars == 2
MaxTasks == 2
MaxSessionBars == 2
MaxIngestRows == 5
MaxTicks == 5

\* ------------------------------------------------------ program constants
ChannelCapacity == 100
WindowSecs == 300
BarSecs == 5
BarsPerDay == 78
HalfDay == 39
BATCH_SIZE == 200000
MAX_BATCH_WAIT_MS == 1000
IngestChannelCapacity == 10000

Prices == {1, 2}
Assets == {"STK", "OPT"}
Actions == {"Buy", "Sell"}
UNKNOWN == "unknown"
STRAT == "strat_a"
STRAT_B == "strat_b"
SYMBOL == "USD"
SYMBOL_B == "QQQ"
OrderIds == 1..MaxOrders

VARIABLES
    open_orders,    \* trading.open_stock_orders / open_option_orders: order id -> row
    transactions,   \* trading.stock_transactions / option_transactions: execution id -> row
    positions,      \* trading.current_*_positions: <<asset, strategy, stock>> -> row
    order_map,      \* OrderEngine.order_map: order id -> (strategy, contract, order)
    broker_orders,  \* the broker's orders: order id -> state
    executions,     \* every ExecutionData the broker has produced, by execution id
    redelivered,    \* number of executions sync_executions has replayed
    place_pc,       \* place_order call -> 0 not called, k next statement, 4 returned
    place_req,      \* place_order call -> the order requested
    place_id,       \* place_order call -> order id obtained
    fn_result,      \* place_order call -> result of the free function
    engine_result,  \* place_order call -> result of OrderEngine::place_order
    next_order_id,  \* the client's order id counter
    subscription,   \* events the broker queued on order_update_stream()
    helpers,        \* events held by the per-event helper threads
    channel,        \* the mpsc channel (capacity ChannelCapacity)
    consumer,       \* "running" or "panicked"
    handled,        \* events on_order_update_received completed, in order
    emitted,        \* number of events the broker produced
    bar_stream,     \* the 5-second bars the subscription has delivered, in order
    bar_workers,    \* bars whose worker thread has not taken the lock yet
    collected_bars, \* the VecDeque<Bar> shared by the worker threads
    bars_sent,      \* the 5-minute bars sent to the bar channel, in order
    target,         \* trading.target_*_positions: <<asset, strategy, stock>> -> row
    engine_built,   \* OrderEngine::new has run
    contract_to_strategy, \* OrderEngine.contract_to_strategy: <<asset, symbol>> -> strategy
    sync_runs,      \* number of sync_positions runs
    commission_reports, \* the CommissionReports handed to on_commission_update, in order
    commission_tasks,   \* reports whose spawned task has not written yet
    staged_commissions, \* trading.staged_commissions: execution id -> row
    hist_prior,     \* historical_data rows of the contract since earliest_datetime, before today
    hist_today,     \* historical_data rows of the contract of today
    backfill_days,  \* the days argument of update_at_least_n_days_data
    backfill_result,    \* "none", "Ok", "Err" or "panicked"
    backfill_tasks, \* bars whose spawned upsert has not run: [prior, today]
    strategy_status,    \* trading.strategy: name -> status
    strategy_started,   \* strategies whose start-up task has created its row
    attribution_tasks,  \* the tasks on_new_*_execution spawned, one per ExecutionData handled
    subscriptions,  \* Consolidator.subscriptions: instrument -> timestep -> strategies
    live_data,      \* Consolidator.live_data: instrument -> the pending-bar deque (by number)
    stream_threads, \* the real-time stream threads spawned: thread k serves stream_threads[k] with deque k
    bar_minutes, \* minute offsets from 09:30 New York of the 5-minute bars consolidated so far, in order
    historical_rows, \* trading.historical_data / historical_options_data: the <<instrument, minute>> rows
    contract_update_channel, \* the (contract, time) channel read by begin_bar_listening
    strategy_tasks, \* the tasks begin_bar_listening spawned, one per strategy dispatched
    ingest_channel, \* the row channel of init_channel: rows sent and not yet received
    batch_buffer, \* the buffer of the batch loop
    stored_rows, \* rows flush_batch has committed to trading.historical_data
    accepted_rows, \* rows for which batch_create_or_update returned Ok
    batch_loop, \* "running" or "ended"
    shutdown_channel, \* the shutdown channel: signals sent and not yet received
    shutdown_sender_taken, \* close_channel has taken the shutdown sender
    last_flush_elapsed, \* milliseconds since last_flush
    sleep_elapsed, \* milliseconds since the sleep of the current select! was created
    buffer_age, \* milliseconds since the buffer became non-empty
    flush_error_logged, \* some flush_batch returned an error
    open_orders_pass, \* sync_open_orders: idle, running, panicked or done
    open_order_events, \* the items the all_open_orders subscription has yielded
    open_orders_buffer, \* the local map of sync_open_orders, by perm_id
    open_order_tasks, \* the tasks on_full_open_order_received has spawned
    active_strategies, \* the list OrderEngine::new was given
    rt_thread, \* the stream thread of one instrument: not_started, listening or ended
    rt_requests, \* realtime_bars requests the thread has made
    rt_cancels, \* subscriptions the thread has cancelled
    rt_bars, \* 5-second bars handed to on_new_5sec_bar
    rt_stalls, \* next_timeout calls that returned None
    rt_end_reason, \* why the thread left its loop
    rt_wait, \* seconds the current next_timeout call has waited
    event_backlog, \* order events the broker subscription holds for the feeder
    sender_threads, \* helper threads that hold an event they have not sent yet
    queued_events, \* events in the order-event channel
    handled_events, \* events the consumer has handled
    now_day, \* the calendar day in New York
    now_hour, \* the hour of the day in New York
    supervisor, \* where main is in its loop: top, start, running or stopped
    gateway_starts, \* IBGateway::start calls so far
    login_failed, \* the last IBGateway::start reported a login failure
    market_opens, \* market opens that have passed
    opens_at_failure \* market_opens when the login failure was reported

dbVars == <<open_orders, transactions, positions>>
brokerVars == <<broker_orders, executions, redelivered>>
placeVars == <<place_pc, place_req, place_id, fn_result, engine_result,
              next_order_id>>
streamVars == <<subscription, helpers, channel, consumer, handled, emitted>>
barVars == <<bar_stream, bar_workers, collected_bars, bars_sent>>
\* the variables of the order engine's session
sessionVars == <<dbVars, order_map, brokerVars, placeVars, streamVars>>
\* the variables of the other components
syncVars == <<engine_built, contract_to_strategy, sync_runs>>
commVars == <<commission_reports, commission_tasks, staged_commissions>>
histVars == <<hist_prior, hist_today, backfill_days, backfill_result,
              backfill_tasks>>
statusVars == <<strategy_status, strategy_started>>
taskVars == <<attribution_tasks>>
regVars == <<subscriptions, live_data, stream_threads>>
dispVars == <<bar_minutes, historical_rows, contract_update_channel, strategy_tasks>>
batchVars == <<ingest_channel, batch_buffer, stored_rows, accepted_rows, batch_loop, shutdown_channel, shutdown_sender_taken, last_flush_elapsed, sleep_elapsed, buffer_age, flush_error_logged>>
ooVars == <<open_orders_pass, open_order_events, open_orders_buffer, open_order_tasks>>
engVars == <<active_strategies>>
rtVars == <<rt_thread, rt_requests, rt_cancels, rt_bars, rt_stalls,
           rt_end_reason, rt_wait>>
bpVars == <<event_backlog, sender_threads, queued_events, handled_events>>
supVars == <<now_day, now_hour, supervisor, gateway_starts, login_failed, market_opens, opens_at_failure>>
extVars == <<barVars, target, syncVars, commVars, histVars, statusVars,
             taskVars, regVars,
    dispVars,
    batchVars,
    ooVars,
    engVars,
    rtVars,
    bpVars,
    supVars>>
\* what the actions of one component leave unchanged besides the session
barFrame == <<target, syncVars, commVars, histVars, statusVars,
    taskVars, regVars,
    dispVars,
    batchVars,
    ooVars,
    engVars,
    rtVars,
    bpVars,
    supVars>>
diffFrame == <<barVars, syncVars, commVars, histVars, statusVars,
    taskVars, regVars,
    dispVars,
    batchVars,
    ooVars,
    engVars,
    rtVars,
    bpVars,
    supVars>>
syncFrame == <<barVars, target, commVars, histVars, statusVars,
    taskVars, regVars,
    dispVars,
    batchVars,
    ooVars,
    engVars,
    rtVars,
    bpVars,
    supVars>>
commFrame == <<barVars, target, syncVars, histVars, statusVars,
    taskVars, regVars,
    dispVars,
    batchVars,
    ooVars,
    engVars,
    rtVars,
    bpVars,
    supVars>>
histFrame == <<barVars, target, syncVars, commVars, statusVars,
    taskVars, regVars,
    dispVars,
    batchVars,
    ooVars,
    engVars,
    rtVars,
    bpVars,
    supVars>>
statusFrame == <<barVars, target, commVars, histVars,
    taskVars, regVars,
    dispVars,
    batchVars,
    ooVars,
    engVars,
    rtVars,
    bpVars,
    supVars>>
taskFrame == <<barVars, target, syncVars, commVars, histVars, statusVars,
    regVars,
    dispVars,
    batchVars,
    ooVars,
    engVars,
    rtVars,
    bpVars,
    supVars>>
regFrame == <<barVars, target, syncVars, commVars, histVars, statusVars,
    taskVars,
    dispVars,
    batchVars,
    ooVars,
    engVars,
    rtVars,
    bpVars,
    supVars>>
dispFrame == <<barVars, target, syncVars, commVars, histVars,
    statusVars, taskVars, regVars,
    batchVars,
    ooVars,
    engVars,
    rtVars,
    bpVars,
    supVars>>
batchFrame == <<barVars, target, syncVars, commVars, histVars,
    statusVars, taskVars, regVars, dispVars,
    ooVars,
    engVars,
    rtVars,
    bpVars,
    supVars>>
ooFrame == <<barVars, target, syncVars, commVars, histVars,
    statusVars, taskVars, regVars, dispVars, batchVars,
    engVars,
    rtVars,
    bpVars,
    supVars>>
engFrame == <<barVars, target, commVars, histVars,
    statusVars, taskVars, regVars, dispVars, batchVars, ooVars,
    rtVars,
    bpVars,
    supVars>>
rtFrame == <<barVars, target, syncVars, commVars, histVars,
    statusVars, taskVars, regVars, dispVars, batchVars, ooVars, engVars,
    bpVars,
    supVars>>
bpFrame == <<barVars, target, syncVars, commVars, histVars,
    statusVars, taskVars, regVars, dispVars, batchVars, ooVars, engVars, rtVars,
    supVars>>
supFrame == <<barVars, target, syncVars, commVars, histVars,
    statusVars, taskVars, regVars, dispVars, batchVars, ooVars, engVars, rtVars, bpVars>>
vars == <<open_orders, transactions, positions, order_map, broker_orders,
          executions, redelivered, place_pc, place_req, place_id, fn_result,
          engine_result, next_order_id, subscription, helpers, channel,
          consumer, handled, emitted, bar_stream, bar_workers,
          collected_bars, bars_sent, target, engine_built,
          contract_to_strategy, sync_runs, commission_reports,
          commission_tasks, staged_commissions, hist_prior, hist_today,
          backfill_days, backfill_result, backfill_tasks, strategy_status,
          strategy_started, attribution_tasks, subscriptions, live_data,
          stream_threads,
          bar_minutes, historical_rows, contract_update_channel, strategy_tasks,
          ingest_channel, batch_buffer, stored_rows, accepted_rows, batch_loop, shutdown_channel, shutdown_sender_taken, last_flush_elapsed, sleep_elapsed, buffer_age, flush_error_logged,
          open_orders_pass, open_order_events, open_orders_buffer, open_order_tasks,
          active_strategies,
          rt_thread, rt_requests, rt_cancels, rt_bars, rt_stalls, rt_end_reason,
          rt_wait,
          event_backlog, sender_threads, queued_events,
          handled_events,
          now_day, now_hour, supervisor, gateway_starts, login_failed, market_opens, opens_at_failure>>

\* --------------------------------------------------------------- helpers
Abs(x) == IF x < 0 THEN -x ELSE x

Sign(x) == IF x > 0 THEN 1 ELSE IF x < 0 THEN -1 ELSE 0

RECURSIVE GCD(_, _)
GCD(a, b) == IF b = 0 THEN a ELSE GCD(b, a % b)

\* a non-negative rational in lowest terms
Rat(n, d) == LET g == GCD(n, d) IN IF g = 0 THEN <<0, 1>> ELSE <<n \div g, d \div g>>

\* a table row store: a function whose domain is the set of existing keys
Insert(t, k, row) == [x \in DOMAIN t \cup {k} |-> IF x = k THEN row ELSE t[x]]

Delete(t, k) == [x \in DOMAIN t \ {k} |-> t[x]]

EmptyTable == [x \in {} |-> 0]

\* +shares for "BOT", -shares for "SLD"
SignedShares(e) == IF e.side = "BOT" THEN e.shares ELSE -e.shares

\* ------------------------------------------------- execution attribution
\* the open order has been found and does not list this execution id yet
IsNewExecution(oo, e) ==
    /\ e.order_id \in DOMAIN oo
    /\ \A k \in 1..Len(oo[e.order_id].executions) :
           oo[e.order_id].executions[k] # e.execution_id

\* the completion test without the absolute value of the row's quantity
CompletesOrder_Signed(row, e) == e.cumulative_quantity = row.quantity

\* the test that decides between deleting and updating the open order
CompletesOrder(row, e) == e.cumulative_quantity = Abs(row.quantity)

\* the spawned task that deletes the open order or updates it from `row`,
\* the row the handler read: an UPDATE of a missing row changes nothing
WriteOpenOrder(oo, row, e) ==
    LET execs == Append(row.executions, e.execution_id)
    IN  IF CompletesOrder(row, e)
        THEN Delete(oo, e.order_id)
        ELSE IF e.order_id \in DOMAIN oo
             THEN [oo EXCEPT ![e.order_id] =
                      [row EXCEPT !.executions = execs,
                                  !.filled = row.filled + e.shares]]
             ELSE oo

\* the task that updates or deletes the open order, run right after the read
UpdateOpenOrder(oo, e) == WriteOpenOrder(oo, oo[e.order_id], e)

\* CRUD::create on a transactions table: a plain INSERT; a primary-key
\* collision is an error that the caller logs, the table is unchanged
CreateTransaction(tx, strategy, price, e) ==
    IF e.execution_id \in DOMAIN tx
    THEN tx
    ELSE Insert(tx, e.execution_id,
                [strategy |-> strategy, stock |-> e.symbol, asset |-> e.asset,
                 order_perm_id |-> e.order_id, price |-> price,
                 quantity |-> SignedShares(e)])

\* new (quantity, avg_price) of an existing position row
NewPosition(pos, e) ==
    IF \/ (e.side = "BOT" /\ pos.quantity > 0)
       \/ (e.side = "SLD" /\ pos.quantity < 0)
    THEN LET abs_current_qty == Abs(pos.quantity)
             new_qty == abs_current_qty + e.shares
         IN  [quantity |-> new_qty,
              avg_price |-> Rat(abs_current_qty * pos.avg_price[1]
                                  + e.shares * e.price * pos.avg_price[2],
                                pos.avg_price[2] * new_qty)]
    ELSE IF e.shares > Abs(pos.quantity)
         THEN [quantity |-> e.shares - Abs(pos.quantity),
               avg_price |-> Rat(e.price, 1)]
         ELSE [quantity |-> Abs(pos.quantity) - e.shares,
               avg_price |-> pos.avg_price]

\* quantity of the row created when the strategy holds no position yet:
\* the stock handler stores the shares, the option handler signs them
FirstPositionQuantity(e) ==
    IF e.asset = "STK" THEN e.shares ELSE SignedShares(e)

\* read the position of the open order's strategy, then update or create it
UpdatePosition(ps, row, e) ==
    LET key == <<e.asset, row.strategy, row.stock>>
    IN  IF key \in DOMAIN ps
        THEN [ps EXCEPT ![key] = NewPosition(ps[key], e)]
        ELSE Insert(ps, key, [quantity |-> FirstPositionQuantity(e),
                              avg_price |-> Rat(e.price, 1)])

\* the quantity handed to update_unknown_strat_positions by the orphan path
UnknownDelta(e) == e.shares

\* INSERT ... ON CONFLICT DO UPDATE SET quantity = quantity + EXCLUDED.quantity
update_unknown_strat_positions(ps, asset, stock, qty) ==
    LET key == <<asset, UNKNOWN, stock>>
    IN  IF key \in DOMAIN ps
        THEN [ps EXCEPT ![key].quantity = @ + qty]
        ELSE Insert(ps, key, [quantity |-> qty, avg_price |-> <<0, 1>>])

\* on_execution_update -> on_new_stock_execution / on_new_option_execution:
\* the effect of handling ExecutionData e on the three tables
\* (the execution time literal is well formed, so it parses)
on_execution_update(e) ==
    IF e.order_id \in DOMAIN open_orders
    THEN IF IsNewExecution(open_orders, e)
         THEN /\ open_orders' = UpdateOpenOrder(open_orders, e)
              /\ transactions' =
                     CreateTransaction(transactions,
                         open_orders[e.order_id].strategy, Rat(e.price, 1), e)
              /\ positions' =
                     UpdatePosition(positions, open_orders[e.order_id], e)
         ELSE UNCHANGED dbVars
    ELSE /\ UNCHANGED open_orders
         /\ transactions' =
                CreateTransaction(transactions, UNKNOWN, e.average_price, e)
         /\ positions' =
                update_unknown_strat_positions(positions,
                    e.asset, e.symbol, UnknownDelta(e))

\* ------------------------------------------------------- initial state
NoRequest == [asset |-> "STK", action |-> "Buy", total_quantity |-> 0]

InitPlace ==
    /\ place_pc = [p \in 1..MaxPlace |-> 0]
    /\ place_req = [p \in 1..MaxPlace |-> NoRequest]
    /\ place_id = [p \in 1..MaxPlace |-> 0]
    /\ fn_result = [p \in 1..MaxPlace |-> "none"]
    /\ engine_result = [p \in 1..MaxPlace |-> "none"]
    /\ next_order_id = 1

InitStream ==
    /\ subscription = <<>>
    /\ helpers = {}
    /\ channel = <<>>
    /\ consumer = "running"
    /\ handled = <<>>
    /\ emitted = 0

InitBars ==
    /\ bar_stream = <<>>
    /\ bar_workers = {}
    /\ collected_bars = <<>>
    /\ bars_sent = <<>>

Init ==
    /\ open_orders = EmptyTable
    /\ transactions = EmptyTable
    /\ positions = EmptyTable
    /\ order_map = EmptyTable
    /\ broker_orders = EmptyTable
    /\ executions = <<>>
    /\ redelivered = 0
    /\ InitPlace
    /\ InitStream
    /\ InitBars
    /\ target = EmptyTable
    /\ engine_built = FALSE
    /\ contract_to_strategy = EmptyTable
    /\ sync_runs = 0
    /\ commission_reports = <<>>
    /\ commission_tasks = {}
    /\ staged_commissions = EmptyTable
    /\ hist_prior = 0
    /\ hist_today = 0
    /\ backfill_days = 0
    /\ backfill_result = "none"
    /\ backfill_tasks = [prior |-> 0, today |-> 0]
    /\ strategy_status = EmptyTable
    /\ strategy_started = {}
    /\ attribution_tasks = <<>>
    /\ subscriptions = EmptyTable
    /\ live_data = EmptyTable
    /\ stream_threads = <<>>
    /\ bar_minutes = <<>>
    /\ historical_rows = {}
    /\ contract_update_channel = <<>>
    /\ strategy_tasks = {}
    /\ ingest_channel = <<>>
    /\ batch_buffer = <<>>
    /\ stored_rows = {}
    /\ accepted_rows = {}
    /\ batch_loop = "running"
    /\ shutdown_channel = <<>>
    /\ shutdown_sender_taken = FALSE
    /\ last_flush_elapsed = 0
    /\ sleep_elapsed = 0
    /\ buffer_age = 0
    /\ flush_error_logged = FALSE
    /\ open_orders_pass = "idle"
    /\ open_order_events = <<>>
    /\ open_orders_buffer = EmptyTable
    /\ open_order_tasks = <<>>
    /\ active_strategies = <<>>
    /\ rt_thread = "not_started"
    /\ rt_requests = 0
    /\ rt_cancels = 0
    /\ rt_bars = 0
    /\ rt_stalls = 0
    /\ rt_end_reason = "none"
    /\ rt_wait = 0
    /\ event_backlog = 0
    /\ sender_threads = 0
    /\ queued_events = 0
    /\ handled_events = 0
    /\ now_day = 0
    /\ now_hour = 0
    /\ supervisor = "top"
    /\ gateway_starts = 0
    /\ login_failed = FALSE
    /\ market_opens = 0
    /\ opens_at_failure = 0

\* ------------------------------------------------ the session's handlers
NewBrokerOrder(strategy, asset, action, qty) ==
    [strategy |-> strategy, asset |-> asset, action |-> action,
     total |-> qty, cum |-> 0, value |-> 0, status |-> "placed"]

\* the session trades one instrument, SYMBOL, which is a stock or an option
SameInstrument(asset) == \A x \in DOMAIN broker_orders : broker_orders[x].asset = asset

\* orders the broker has neither filled nor cancelled
LiveOrders == {x \in DOMAIN broker_orders :
                  broker_orders[x].status \in {"placed", "working"}}

\* place_order (successful path): the entry is put into order_map and the
\* broker accepts the order
PlaceOrder(o, asset, action, qty) ==
    /\ o = Cardinality(DOMAIN broker_orders) + 1
    /\ o <= MaxOrders
    /\ Cardinality(LiveOrders) < MaxLive
    /\ SameInstrument(asset)
    /\ order_map' = Insert(order_map, o,
           [strategy |-> STRAT, stock |-> SYMBOL, asset |-> asset,
            action |-> action, total_quantity |-> qty])
    /\ broker_orders' = Insert(broker_orders, o,
           NewBrokerOrder(STRAT, asset, action, qty))
    /\ UNCHANGED <<dbVars, executions, redelivered>>
    /\ UNCHANGED <<placeVars, streamVars>>
    /\ UNCHANGED extVars

\* an order that reaches the broker without place_order of this session
OutsideOrder(o, asset, action, qty) ==
    /\ o = Cardinality(DOMAIN broker_orders) + 1
    /\ o <= MaxOrders
    /\ Cardinality(LiveOrders) < MaxLive
    /\ SameInstrument(asset)
    /\ broker_orders' = Insert(broker_orders, o,
           NewBrokerOrder(UNKNOWN, asset, action, qty))
    /\ UNCHANGED <<dbVars, order_map, executions, redelivered>>
    /\ UNCHANGED <<placeVars, streamVars>>
    /\ UNCHANGED extVars

\* signed quantity of the row created for a submitted order
SubmittedQuantity(order) ==
    (IF order.action = "Sell" THEN -1 ELSE 1) * order.total_quantity

\* the insert that replaces the row on a conflict
create_or_ignore_Replace(t, k, row) == Insert(t, k, row)

\* CRUD::create_or_ignore: INSERT ... ON CONFLICT DO NOTHING
create_or_ignore(t, k, row) == IF k \in DOMAIN t THEN t ELSE Insert(t, k, row)

\* the handler writing the fresh row over an existing one
on_new_order_submitted_Overwrite(oo, o, strategy_order) ==
    Insert(oo, o,
        [strategy |-> strategy_order.strategy, stock |-> strategy_order.stock,
         asset |-> strategy_order.asset,
         quantity |-> SubmittedQuantity(strategy_order),
         filled |-> 0, executions |-> <<>>])

\* on_new_order_submitted
on_new_order_submitted(oo, o, strategy_order) ==
    create_or_ignore(oo, o,
        [strategy |-> strategy_order.strategy, stock |-> strategy_order.stock,
         asset |-> strategy_order.asset,
         quantity |-> SubmittedQuantity(strategy_order),
         filled |-> 0, executions |-> <<>>])

\* OrderStatus "Submitted" (or OpenOrder Submitted/PreSubmitted) of an order
\* that is in order_map
OnSubmitted(o) ==
    /\ o \in DOMAIN order_map
    /\ broker_orders[o].status \in {"placed", "working"}
    /\ open_orders' = on_new_order_submitted(open_orders, o, order_map[o])
    /\ broker_orders' = [broker_orders EXCEPT ![o].status = "working"]
    /\ UNCHANGED <<transactions, positions, order_map, executions,
                   redelivered>>
    /\ UNCHANGED <<placeVars, streamVars>>
    /\ UNCHANGED extVars

\* the ExecutionData the broker produces when it fills `shares` of order o
BrokerExecution(o, shares, price) ==
    LET b == broker_orders[o]
    IN  [execution_id |-> Len(executions) + 1, order_id |-> o,
         asset |-> b.asset, symbol |-> SYMBOL,
         side |-> IF b.action = "Buy" THEN "BOT" ELSE "SLD",
         shares |-> shares, price |-> price,
         cumulative_quantity |-> b.cum + shares,
         average_price |-> Rat(b.value + shares * price, b.cum + shares)]

\* OrderUpdate::ExecutionData: the broker fills part or all of an order and
\* the consumer hands the execution to on_execution_update
OnExecutionData(o, shares, price) ==
    LET b == broker_orders[o]
        e == BrokerExecution(o, shares, price)
    IN  /\ \/ b.status = "working"
           \/ b.status = "placed" /\ o \notin DOMAIN order_map
        /\ Len(executions) < MaxExecs
        /\ e.cumulative_quantity <= b.total
        /\ executions' = Append(executions, e)
        /\ broker_orders' = [broker_orders EXCEPT
               ![o].cum = e.cumulative_quantity,
               ![o].value = b.value + shares * price,
               ![o].status = IF e.cumulative_quantity = b.total
                             THEN "filled" ELSE b.status]
        /\ on_execution_update(e)
        /\ UNCHANGED <<order_map, redelivered>>
        /\ UNCHANGED <<placeVars, streamVars>>
        /\ UNCHANGED extVars

\* sync_executions: the broker replays an execution of the day and it is
\* handed to on_execution_update again
SyncExecution(i) ==
    /\ redelivered < MaxRedeliver
    /\ redelivered' = redelivered + 1
    /\ on_execution_update(executions[i])
    /\ UNCHANGED <<order_map, broker_orders, executions>>
    /\ UNCHANGED <<placeVars, streamVars>>
    /\ UNCHANGED extVars

\* OrderStatus "Cancelled" / "ApiCancelled": on_order_cancelled
OnCancelled(o) ==
    /\ o \in DOMAIN order_map
    /\ broker_orders[o].status = "working"
    /\ open_orders' = Delete(open_orders, o)
    /\ broker_orders' = [broker_orders EXCEPT ![o].status = "cancelled"]
    /\ UNCHANGED <<transactions, positions, order_map, executions,
                   redelivered>>
    /\ UNCHANGED <<placeVars, streamVars>>
    /\ UNCHANGED extVars

Next ==
    \/ \E o \in OrderIds, a \in Assets, act \in Actions, q \in 1..MaxQty :
           PlaceOrder(o, a, act, q)
    \/ \E o \in OrderIds, a \in Assets, act \in Actions, q \in 1..MaxQty :
           OutsideOrder(o, a, act, q)
    \/ \E o \in DOMAIN broker_orders : OnSubmitted(o)
    \/ \E o \in DOMAIN broker_orders, n \in 1..MaxQty, p \in Prices :
           OnExecutionData(o, n, p)
    \/ \E i \in 1..Len(executions) : SyncExecution(i)
    \/ \E o \in DOMAIN broker_orders : OnCancelled(o)

Spec == Init /\ [][Next]_vars

\* =================================================== the order-update stream
\* the statements of place_order, in program order
PlaceOrderProgram_SubmitFirst == <<"next_order_id", "submit_order", "insert">>

PlaceOrderProgram == <<"next_order_id", "insert", "submit_order">>

Returned == Len(PlaceOrderProgram) + 1

\* the statement place_order call p executes next
Statement(p) ==
    IF place_pc[p] \in 1..Len(PlaceOrderProgram)
    THEN PlaceOrderProgram[place_pc[p]]
    ELSE "none"

\* order id of an order that was not placed by place_order in this session
OutsideOrderId == 0

\* OrderEngine::place_order: spawns a task that runs place_order and returns
\* Ok(()) at once
EnginePlaceOrder(p, asset, action, qty) ==
    /\ place_pc[p] = 0
    /\ \A r \in 1..(p - 1) : place_pc[r] # 0
    /\ place_pc' = [place_pc EXCEPT ![p] = 1]
    /\ place_req' = [place_req EXCEPT ![p] =
           [asset |-> asset, action |-> action, total_quantity |-> qty]]
    /\ engine_result' = [engine_result EXCEPT ![p] = "Ok"]
    /\ UNCHANGED <<place_id, fn_result, next_order_id, order_map>>
    /\ UNCHANGED <<dbVars, brokerVars, streamVars>>
    /\ UNCHANGED extVars

\* place_order: let order_id = client.next_order_id()
PlaceNextOrderId(p) ==
    /\ Statement(p) = "next_order_id"
    /\ place_id' = [place_id EXCEPT ![p] = next_order_id]
    /\ next_order_id' = next_order_id + 1
    /\ place_pc' = [place_pc EXCEPT ![p] = @ + 1]
    /\ UNCHANGED <<place_req, fn_result, engine_result, order_map>>
    /\ UNCHANGED <<dbVars, brokerVars, streamVars>>
    /\ UNCHANGED extVars

\* place_order: order_map.insert(order_id, (strategy, contract, order))
PlaceInsert(p) ==
    /\ Statement(p) = "insert"
    /\ order_map' = Insert(order_map, place_id[p],
           [strategy |-> STRAT, stock |-> SYMBOL, asset |-> place_req[p].asset,
            action |-> place_req[p].action,
            total_quantity |-> place_req[p].total_quantity])
    /\ place_pc' = [place_pc EXCEPT ![p] = @ + 1]
    /\ fn_result' = [fn_result EXCEPT ![p] =
           IF place_pc[p] = Len(PlaceOrderProgram) THEN "Ok" ELSE @]
    /\ UNCHANGED <<place_req, place_id, engine_result, next_order_id>>
    /\ UNCHANGED <<dbVars, brokerVars, streamVars>>
    /\ UNCHANGED extVars

\* place_order: client.submit_order(order_id, &contract, &order)?
\* the broker takes the order, or the call fails and place_order returns Err
PlaceSubmit(p, accepted) ==
    /\ Statement(p) = "submit_order"
    /\ broker_orders' = Insert(broker_orders, place_id[p],
           [NewBrokerOrder(STRAT, place_req[p].asset, place_req[p].action,
                           place_req[p].total_quantity)
              EXCEPT !.status = IF accepted THEN "placed" ELSE "rejected"])
    /\ place_pc' = [place_pc EXCEPT ![p] = IF accepted THEN @ + 1 ELSE Returned]
    /\ fn_result' = [fn_result EXCEPT ![p] =
           IF ~accepted THEN "Err"
           ELSE IF place_pc[p] = Len(PlaceOrderProgram) THEN "Ok" ELSE @]
    /\ UNCHANGED <<place_req, place_id, engine_result, next_order_id, order_map>>
    /\ UNCHANGED <<dbVars, executions, redelivered, streamVars>>
    /\ UNCHANGED extVars

\* an order of an earlier session or of another client is live at the broker
StreamOutsideOrder(asset, action, qty) ==
    /\ OutsideOrderId \notin DOMAIN broker_orders
    /\ broker_orders' = Insert(broker_orders, OutsideOrderId,
           NewBrokerOrder(UNKNOWN, asset, action, qty))
    /\ UNCHANGED <<dbVars, order_map, executions, redelivered>>
    /\ UNCHANGED <<placeVars, streamVars>>
    /\ UNCHANGED extVars

NoExecution ==
    [execution_id |-> 0, order_id |-> 0, asset |-> "STK", symbol |-> SYMBOL,
     side |-> "BOT", shares |-> 0, price |-> 0, cumulative_quantity |-> 0,
     average_price |-> <<0, 1>>]

OrderUpdate(o, kind, e) ==
    [seq |-> emitted + 1, order_id |-> o, kind |-> kind, execution |-> e]

\* the broker reports order o as Submitted on the order-update stream
BrokerSubmitted(o) ==
    /\ emitted < MaxEvents
    /\ broker_orders[o].status = "placed"
    /\ broker_orders' = [broker_orders EXCEPT ![o].status = "working"]
    /\ subscription' = Append(subscription, OrderUpdate(o, "Submitted", NoExecution))
    /\ emitted' = emitted + 1
    /\ UNCHANGED <<dbVars, order_map, executions, redelivered, placeVars>>
    /\ UNCHANGED <<helpers, channel, consumer, handled>>
    /\ UNCHANGED extVars

\* the broker fills part or all of order o and reports the execution
BrokerExecutionData(o, shares, price) ==
    LET b == broker_orders[o]
        e == BrokerExecution(o, shares, price)
    IN  /\ emitted < MaxEvents
        /\ b.status = "working"
        /\ e.cumulative_quantity <= b.total
        /\ executions' = Append(executions, e)
        /\ broker_orders' = [broker_orders EXCEPT
               ![o].cum = e.cumulative_quantity,
               ![o].value = b.value + shares * price,
               ![o].status = IF e.cumulative_quantity = b.total
                             THEN "filled" ELSE b.status]
        /\ subscription' = Append(subscription, OrderUpdate(o, "ExecutionData", e))
        /\ emitted' = emitted + 1
        /\ UNCHANGED <<dbVars, order_map, redelivered, placeVars>>
        /\ UNCHANGED <<helpers, channel, consumer, handled>>
        /\ UNCHANGED extVars

\* the broker cancels order o and reports it as Cancelled
BrokerCancelled(o) ==
    /\ emitted < MaxEvents
    /\ broker_orders[o].status = "working"
    /\ broker_orders' = [broker_orders EXCEPT ![o].status = "cancelled"]
    /\ subscription' = Append(subscription, OrderUpdate(o, "Cancelled", NoExecution))
    /\ emitted' = emitted + 1
    /\ UNCHANGED <<dbVars, order_map, executions, redelivered, placeVars>>
    /\ UNCHANGED <<helpers, channel, consumer, handled>>
    /\ UNCHANGED extVars

\* the feeder thread: event_subscription.next(), then a helper thread is
\* spawned for the event
FeederNext ==
    /\ subscription # <<>>
    /\ helpers' = helpers \cup {Head(subscription)}
    /\ subscription' = Tail(subscription)
    /\ UNCHANGED <<dbVars, order_map, brokerVars, placeVars>>
    /\ UNCHANGED <<channel, consumer, handled, emitted>>
    /\ UNCHANGED extVars

\* a helper thread: cloned_sender.blocking_send(event); the send fails and
\* the event is lost when the receiver is gone
HelperSend(ev) ==
    /\ ev \in helpers
    /\ consumer = "panicked" \/ Len(channel) < ChannelCapacity
    /\ helpers' = helpers \ {ev}
    /\ channel' = IF consumer = "panicked" THEN channel ELSE Append(channel, ev)
    /\ UNCHANGED <<dbVars, order_map, brokerVars, placeVars>>
    /\ UNCHANGED <<subscription, consumer, handled, emitted>>
    /\ UNCHANGED extVars

\* the kinds of event whose handler reads order_map with expect
NeedsOrderMap(ev) == ev.kind \in {"Submitted", "Cancelled"}

\* on_order_update_received for an event whose order_map lookup succeeds or
\* is not needed
Dispatch(ev) ==
    IF ev.kind = "Submitted"
    THEN /\ open_orders' =
               on_new_order_submitted(open_orders, ev.order_id,
                                      order_map[ev.order_id])
         /\ UNCHANGED <<transactions, positions>>
    ELSE IF ev.kind = "Cancelled"
    THEN /\ open_orders' = Delete(open_orders, ev.order_id)
         /\ UNCHANGED <<transactions, positions>>
    ELSE on_execution_update(ev.execution)

\* the consumer task: rx.recv().await, then on_order_update_received; the
\* task ends when the handler panics
ConsumerRecv ==
    /\ consumer = "running"
    /\ channel # <<>>
    /\ LET ev == Head(channel)
       IN  IF NeedsOrderMap(ev) /\ ev.order_id \notin DOMAIN order_map
           THEN /\ consumer' = "panicked"
                /\ channel' = <<>>
                /\ UNCHANGED <<dbVars, handled>>
           ELSE /\ Dispatch(ev)
                /\ handled' = Append(handled, ev)
                /\ channel' = Tail(channel)
                /\ UNCHANGED consumer
    /\ UNCHANGED <<order_map, brokerVars, placeVars>>
    /\ UNCHANGED <<subscription, helpers, emitted>>
    /\ UNCHANGED extVars

\* the orders and the fill price of the stream's session
StreamRequests ==
    {[asset |-> "STK", action |-> "Sell", total_quantity |-> MaxQty]}

StreamPrice == CHOOSE p \in Prices : TRUE

NextStream ==
    \/ \E p \in 1..MaxPlace, r \in StreamRequests :
           EnginePlaceOrder(p, r.asset, r.action, r.total_quantity)
    \/ \E p \in 1..MaxPlace : PlaceNextOrderId(p)
    \/ \E p \in 1..MaxPlace : PlaceInsert(p)
    \/ \E p \in 1..MaxPlace, accepted \in BOOLEAN : PlaceSubmit(p, accepted)
    \/ \E r \in StreamRequests :
           StreamOutsideOrder(r.asset, r.action, r.total_quantity)
    \/ \E o \in DOMAIN broker_orders : BrokerSubmitted(o)
    \/ \E o \in DOMAIN broker_orders, n \in 1..MaxQty :
           BrokerExecutionData(o, n, StreamPrice)
    \/ \E o \in DOMAIN broker_orders : BrokerCancelled(o)
    \/ FeederNext
    \/ \E ev \in helpers : HelperSend(ev)
    \/ ConsumerRecv

SpecStream == Init /\ [][NextStream]_vars

\* ======================================================= bar consolidation
\* the OHLCV values a 5-second bar may carry
BarShapes ==
    {[open |-> 2, high |-> 3, low |-> 1, close |-> 2, volume |-> 1],
     [open |-> 3, high |-> 4, low |-> 2, close |-> 3, volume |-> 2]}

\* a bar follows its predecessor at once or after a gap of one window
BarSteps == {BarSecs, WindowSecs}

\* the first bar of the subscription closes a window
FirstBarTime == WindowSecs - BarSecs

\* timestamp - (timestamp % 300): the start of the bar's 5-minute window
Bucket(t) == t - (t % WindowSecs)

Bar(t, shape) ==
    [t |-> t, open |-> shape.open, high |-> shape.high, low |-> shape.low,
     close |-> shape.close, volume |-> shape.volume]

Max(a, b) == IF a >= b THEN a ELSE b

Min(a, b) == IF a <= b THEN a ELSE b

\* the inner loop body: one more bar of the window being built
Merge(acc, b) ==
    [acc EXCEPT !.high = Max(acc.high, b.high), !.low = Min(acc.low, b.low),
                !.close = b.close, !.volume = acc.volume + b.volume]

\* the inner loop: pops the bars at the front that belong to window no
RECURSIVE MergeRun(_, _, _)
MergeRun(acc, q, no) ==
    IF q # <<>> /\ Bucket(Head(q).t) = no
    THEN MergeRun(Merge(acc, Head(q)), Tail(q), no)
    ELSE <<acc, q>>

\* the outer loop: builds and sends windows until the front of the deque is
\* in the window of the latest bar (the deque always ends with the latest
\* bar, so it is never emptied)
RECURSIVE Drain(_, _, _)
Drain(q, sent, latest_bar_no) ==
    IF q = <<>> \/ Bucket(Head(q).t) = latest_bar_no
    THEN <<q, sent>>
    ELSE LET bar_to_be_built == Bucket(Head(q).t)
             r == MergeRun(Head(q), Tail(q), bar_to_be_built)
         IN  Drain(r[2], Append(sent, [r[1] EXCEPT !.t = bar_to_be_built]),
                   latest_bar_no)

\* the subscription delivers the next 5-second bar and on_new_5sec_bar
\* spawns a worker thread for it
NewBar(step, shape) ==
    /\ Len(bar_stream) < MaxBars
    /\ LET t == IF bar_stream = <<>> THEN FirstBarTime
                ELSE bar_stream[Len(bar_stream)].t + step
       IN  /\ bar_stream' = Append(bar_stream, Bar(t, shape))
           /\ bar_workers' = bar_workers \cup {Bar(t, shape)}
    /\ UNCHANGED <<collected_bars, bars_sent>>
    /\ UNCHANGED <<sessionVars, barFrame>>

\* a worker thread takes the lock and runs the body of on_new_5sec_bar
BarWorker(bar) ==
    /\ bar \in bar_workers
    /\ bar_workers' = bar_workers \ {bar}
    /\ LET r == Drain(Append(collected_bars, bar), bars_sent, Bucket(bar.t))
       IN  /\ collected_bars' = r[1]
           /\ bars_sent' = r[2]
    /\ UNCHANGED bar_stream
    /\ UNCHANGED <<sessionVars, barFrame>>

NextBars ==
    \/ \E step \in BarSteps, shape \in BarShapes : NewBar(step, shape)
    \/ \E bar \in bar_workers : BarWorker(bar)

SpecBars == Init /\ [][NextBars]_vars

\* ==================================================== target-diff placement
\* COALESCE(row.quantity, 0)
Coalesce(t, key) == IF key \in DOMAIN t THEN t[key].quantity ELSE 0

\* get_target_pos_diff: the FULL OUTER JOIN of the target and the current
\* position of the strategy+instrument; no row when neither exists
get_target_pos_diff(tp, ps, asset) ==
    LET key == <<asset, STRAT, SYMBOL>>
    IN  IF key \notin DOMAIN tp /\ key \notin DOMAIN ps
        THEN {}
        ELSE {Coalesce(tp, key) - Coalesce(ps, key)}

\* get_orders_for_strat on the open-order table of the asset type
OrdersForStrat(asset) ==
    {o \in DOMAIN open_orders :
        open_orders[o].strategy = STRAT /\ open_orders[o].asset = asset}

RECURSIVE SumOpenQuantity(_)
SumOpenQuantity(ids) ==
    IF ids = {} THEN 0
    ELSE LET o == CHOOSE x \in ids : TRUE
         IN  open_orders[o].quantity + SumOpenQuantity(ids \ {o})

RECURSIVE SumOpenFilled(_)
SumOpenFilled(ids) ==
    IF ids = {} THEN 0
    ELSE LET o == CHOOSE x \in ids : TRUE
         IN  open_orders[o].filled + SumOpenFilled(ids \ {o})

\* f64::signum: 1.0 or -1.0, never 0; a zero has the sign of its sign bit,
\* which for an empty f64 sum is + or - depending on the toolchain
Signum(x, zero_sign) == IF x > 0 THEN 1 ELSE IF x < 0 THEN -1 ELSE zero_sign

\* current_qty_diff = (sum quantity - sum filled) * signum(sum quantity)
CurrentQtyDiff(ids, zero_sign) ==
    (SumOpenQuantity(ids) - SumOpenFilled(ids))
        * Signum(SumOpenQuantity(ids), zero_sign)

\* the test that makes the handler cancel every open order and place anew
WrongDirectionOrTooHigh(cur, qty_diff, zero_sign) ==
    \/ Signum(cur, zero_sign) # Signum(qty_diff, zero_sign)
    \/ Abs(cur) > Abs(qty_diff)

\* the test that makes the handler place an additional order
NeedsTopUp(asset, cur, qty_diff) ==
    IF asset = "STK" THEN Abs(cur) < Abs(qty_diff) ELSE cur < qty_diff

\* the rows the replacement case deletes: both handlers delete the keys
\* from the stock open-order table
ReplacedRows(ids) == {x \in ids : open_orders[x].asset = "STK"}

\* what on_new_stock_qty_diff_for_strat / on_new_option_qty_diff_for_strat
\* decide: orders to cancel, rows to delete and the size of the order to
\* place (0: none), which is a Buy when qty_diff > 0
QtyDiffDecision(asset, qty_diff, zero_sign) ==
    LET ids == OrdersForStrat(asset)
        cur == CurrentQtyDiff(ids, zero_sign)
    IN  IF qty_diff = 0
        THEN [cancel |-> ids, delete |-> ids, place |-> 0]
        ELSE IF WrongDirectionOrTooHigh(cur, qty_diff, zero_sign)
        THEN [cancel |-> ids, delete |-> ReplacedRows(ids),
              place |-> Abs(qty_diff)]
        ELSE IF NeedsTopUp(asset, cur, qty_diff)
        THEN [cancel |-> {}, delete |-> {}, place |-> Abs(qty_diff - cur)]
        ELSE [cancel |-> {}, delete |-> {}, place |-> 0]

\* COALESCE(t.avg_price, 0.0) of the diff row
TargetAvgPrice(tp, asset) ==
    IF <<asset, STRAT, SYMBOL>> \in DOMAIN tp
    THEN tp[<<asset, STRAT, SYMBOL>>].avg_price ELSE <<0, 1>>

\* the order built without looking at avg_price
OrderFor_AlwaysMarket(action, qty, avg_price) ==
    [action |-> action, total_quantity |-> qty, order_type |-> "MKT",
     limit_price |-> <<0, 1>>]

\* the order handed to place_order: order_builder::market_order when
\* avg_price == 0.0, else order_builder::limit_order at avg_price
OrderFor(action, qty, avg_price) ==
    IF avg_price[1] = 0
    THEN [action |-> action, total_quantity |-> qty, order_type |-> "MKT",
          limit_price |-> <<0, 1>>]
    ELSE [action |-> action, total_quantity |-> qty, order_type |-> "LMT",
          limit_price |-> avg_price]

\* the strategy writes its target for the instrument
SetTarget(asset, q) ==
    /\ \A k \in DOMAIN target : k[1] = asset
    /\ SameInstrument(asset)
    /\ Coalesce(target, <<asset, STRAT, SYMBOL>>) # q
       \/ <<asset, STRAT, SYMBOL>> \notin DOMAIN target
    /\ target' = Insert(target, <<asset, STRAT, SYMBOL>>,
                        [quantity |-> q, avg_price |-> <<0, 1>>])
    /\ UNCHANGED <<sessionVars, diffFrame>>

\* the strategy deletes its target row
DeleteTarget(asset) ==
    /\ <<asset, STRAT, SYMBOL>> \in DOMAIN target
    /\ target' = Delete(target, <<asset, STRAT, SYMBOL>>)
    /\ UNCHANGED <<sessionVars, diffFrame>>

\* place_orders_for_strategy on a bar update: the diff is read and handed to
\* on_new_*_qty_diff_for_strat, which cancels, deletes rows and places
PlaceOrdersForStrategy(asset, zero_sign) ==
    /\ get_target_pos_diff(target, positions, asset) # {}
    /\ LET qty_diff == CHOOSE d \in get_target_pos_diff(target, positions, asset) : TRUE
           dec == QtyDiffDecision(asset, qty_diff, zero_sign)
           o == Cardinality(DOMAIN broker_orders) + 1
           cancelled == [x \in DOMAIN broker_orders |->
                           IF x \in dec.cancel /\ broker_orders[x].status \in {"placed", "working"}
                           THEN [broker_orders[x] EXCEPT !.status = "cancelled"]
                           ELSE broker_orders[x]]
           action == IF qty_diff > 0 THEN "Buy" ELSE "Sell"
           order == OrderFor(action, dec.place, TargetAvgPrice(target, asset))
       IN  /\ open_orders' = [x \in DOMAIN open_orders \ dec.delete |-> open_orders[x]]
           /\ IF dec.place = 0
              THEN /\ broker_orders' = cancelled
                   /\ UNCHANGED order_map
              ELSE /\ o <= MaxOrders
                   /\ order_map' = Insert(order_map, o,
                          [strategy |-> STRAT, stock |-> SYMBOL, asset |-> asset,
                           action |-> order.action,
                           total_quantity |-> order.total_quantity,
                           order_type |-> order.order_type,
                           limit_price |-> order.limit_price])
                   /\ broker_orders' = Insert(cancelled, o,
                          NewBrokerOrder(STRAT, asset, action, dec.place))
    /\ UNCHANGED <<transactions, positions, executions, redelivered>>
    /\ UNCHANGED <<placeVars, streamVars, target, diffFrame>>

NextDiff ==
    \/ \E a \in Assets, q \in (-MaxTarget)..MaxTarget : SetTarget(a, q)
    \/ \E a \in Assets : DeleteTarget(a)
    \/ \E a \in Assets, zs \in {-1, 1} : PlaceOrdersForStrategy(a, zs)
    \/ \E o \in DOMAIN broker_orders : OnSubmitted(o)
    \/ \E o \in DOMAIN broker_orders, n \in 1..MaxQty :
           OnExecutionData(o, n, StreamPrice)

SpecDiff == Init /\ [][NextDiff]_vars

\* ------------------------------------------- targets that carry a price
\* the strategy writes its target with the price it wants to trade at
SetTargetAt(asset, q, price) ==
    /\ \A k \in DOMAIN target : k[1] = asset
    /\ SameInstrument(asset)
    /\ <<asset, STRAT, SYMBOL>> \in DOMAIN target
           => target[<<asset, STRAT, SYMBOL>>]
                # [quantity |-> q, avg_price |-> <<price, 1>>]
    /\ target' = Insert(target, <<asset, STRAT, SYMBOL>>,
                        [quantity |-> q, avg_price |-> <<price, 1>>])
    /\ UNCHANGED <<sessionVars, diffFrame>>

NextDiffPrice ==
    \/ \E a \in Assets, q \in 1..MaxTarget, p \in {0, StreamPrice} :
           SetTargetAt(a, q, p)
    \/ \E a \in Assets, zs \in {-1, 1} : PlaceOrdersForStrategy(a, zs)
    \/ \E o \in DOMAIN broker_orders : OnSubmitted(o)
    \/ \E o \in DOMAIN broker_orders, n \in 1..MaxQty :
           OnExecutionData(o, n, StreamPrice)

SpecDiffPrice == Init /\ [][NextDiffPrice]_vars

\* -------------------------------------- a strategy with two instruments
\* place_order of the strategy for its other contract, SYMBOL_B
PlaceOtherContract(o, asset, action, qty) ==
    /\ o = Cardinality(DOMAIN broker_orders) + 1
    /\ o <= MaxOrders
    /\ SameInstrument(asset)
    /\ \A x \in DOMAIN order_map : order_map[x].stock # SYMBOL_B
    /\ order_map' = Insert(order_map, o,
           [strategy |-> STRAT, stock |-> SYMBOL_B, asset |-> asset,
            action |-> action, total_quantity |-> qty])
    /\ broker_orders' = Insert(broker_orders, o,
           NewBrokerOrder(STRAT, asset, action, qty))
    /\ UNCHANGED <<dbVars, executions, redelivered>>
    /\ UNCHANGED <<placeVars, streamVars>>
    /\ UNCHANGED extVars

\* the broker's orders on SYMBOL
OnSymbol == {o \in DOMAIN broker_orders :
               o \in DOMAIN order_map => order_map[o].stock = SYMBOL}

NextDiffMulti ==
    \/ \E a \in Assets, q \in (-MaxTarget)..MaxTarget : SetTarget(a, q)
    \/ \E a \in Assets, zs \in {-1, 1} : PlaceOrdersForStrategy(a, zs)
    \/ \E o \in OrderIds, a \in Assets, act \in Actions :
           PlaceOtherContract(o, a, act, MaxQty)
    \/ \E o \in DOMAIN broker_orders : OnSubmitted(o)
    \/ \E o \in OnSymbol, n \in 1..MaxQty : OnExecutionData(o, n, StreamPrice)

SpecDiffMulti == Init /\ [][NextDiffMulti]_vars

\* ================================================== broker reconciliation
\* the position rows of an instrument, over all strategies
LocalRows(ps, asset) == {k \in DOMAIN ps : k[1] = asset /\ k[3] = SYMBOL}

RECURSIVE SumRows(_, _)
SumRows(ps, keys) ==
    IF keys = {} THEN 0
    ELSE LET k == CHOOSE x \in keys : TRUE
         IN  ps[k].quantity + SumRows(ps, keys \ {k})

\* get_all_positions_by_stock: SUM(quantity) GROUP BY stock
get_all_positions_by_stock(ps, asset) ==
    IF LocalRows(ps, asset) = {} THEN EmptyTable
    ELSE [s \in {SYMBOL} |-> SumRows(ps, LocalRows(ps, asset))]

\* stock_map when the broker's positions are read: the scoped threads that
\* would fill it from get_all_positions_by_stock only build a future and
\* drop it unpolled, so the map is still empty
stock_map(ps) == EmptyTable

\* CRUD::create on a positions table: a plain INSERT, an error on conflict
CreatePosition(ps, key, row) == IF key \in DOMAIN ps THEN ps ELSE Insert(ps, key, row)

\* the handling of one PositionUpdate::Position of the broker
ReconcilePosition(ps, asset, broker_qty) ==
    LET local == stock_map(ps)
    IN  IF SYMBOL \in DOMAIN local
        THEN IF local[SYMBOL] # broker_qty
             THEN update_unknown_strat_positions(ps, asset, SYMBOL,
                                                 broker_qty - local[SYMBOL])
             ELSE ps
        ELSE LET strategy == IF <<asset, SYMBOL>> \in DOMAIN contract_to_strategy
                             THEN contract_to_strategy[<<asset, SYMBOL>>]
                             ELSE UNKNOWN
             IN  CreatePosition(ps, <<"STK", strategy, SYMBOL>>,
                     [quantity |-> broker_qty, avg_price |-> <<1, 1>>])

\* a position row left in the store by earlier sessions
StoredPosition(asset, strategy, q) ==
    /\ ~engine_built
    /\ Cardinality(DOMAIN positions) < MaxRows
    /\ <<asset, strategy, SYMBOL>> \notin DOMAIN positions
    /\ positions' = Insert(positions, <<asset, strategy, SYMBOL>>,
                           [quantity |-> q, avg_price |-> <<1, 1>>])
    /\ UNCHANGED <<open_orders, transactions, order_map, brokerVars,
                   placeVars, streamVars>>
    /\ UNCHANGED <<syncVars, syncFrame>>

\* derive(Ord) on StrategyEnum: the variants compare in declaration order
StrategyRank(name) == IF name = STRAT THEN 1 ELSE 2

\* the strategy that wins the tie-break among the owners of a key
Winner(owners) ==
    CHOOSE s \in owners : \A t \in owners : StrategyRank(t) <= StrategyRank(s)

\* OrderEngine::new: contract_to_strategy maps the instrument to the
\* strategy that wins the tie-break among the active strategies trading it
EngineNew(asset, owners) ==
    /\ ~engine_built
    /\ engine_built' = TRUE
    /\ contract_to_strategy' =
           IF owners = {} THEN EmptyTable
           ELSE [k \in {<<asset, SYMBOL>>} |-> Winner(owners)]
    /\ UNCHANGED <<sessionVars, sync_runs, syncFrame>>

\* sync_positions: the broker reports its position in the instrument
SyncPositions(asset, broker_qty) ==
    /\ engine_built
    /\ sync_runs < MaxSyncs
    /\ sync_runs' = sync_runs + 1
    /\ positions' = ReconcilePosition(positions, asset, broker_qty)
    /\ UNCHANGED <<open_orders, transactions, order_map, brokerVars,
                   placeVars, streamVars>>
    /\ UNCHANGED <<engine_built, contract_to_strategy, syncFrame>>

Strategies == {STRAT, STRAT_B}

NextSync ==
    \/ \E a \in Assets, s \in Strategies \cup {UNKNOWN}, q \in (-MaxPos)..MaxPos :
           StoredPosition(a, s, q)
    \/ \E a \in Assets, owners \in SUBSET Strategies : EngineNew(a, owners)
    \/ \E a \in Assets, q \in (-MaxPos)..MaxPos : SyncPositions(a, q)

SpecSync == Init /\ [][NextSync]_vars

\* ===================================================== commission staging
\* CRUD::create_or_update: INSERT ... ON CONFLICT (pk) DO UPDATE SET ...
create_or_update(t, pk, uk) == Insert(t, pk, uk)

\* on_commission_update, called by the consumer for a CommissionUpdate and
\* by sync_executions for a replayed CommissionReport: it spawns the task
\* that writes the row and returns
OnCommissionReport(execution_id, commission) ==
    /\ Len(commission_reports) < MaxReports
    /\ commission_reports' = Append(commission_reports,
           [execution_id |-> execution_id, commission |-> commission])
    /\ commission_tasks' = commission_tasks \cup {Len(commission_reports) + 1}
    /\ UNCHANGED <<sessionVars, staged_commissions, commFrame>>

\* the spawned task: its 10 ms sleep is over and it upserts the row
StageCommission(t) ==
    /\ t \in commission_tasks
    /\ staged_commissions' = create_or_update(staged_commissions,
           commission_reports[t].execution_id,
           [fees |-> commission_reports[t].commission])
    /\ commission_tasks' = commission_tasks \ {t}
    /\ UNCHANGED <<sessionVars, commission_reports, commFrame>>

NextComm ==
    \/ \E o \in OrderIds, r \in StreamRequests :
           PlaceOrder(o, r.asset, r.action, r.total_quantity)
    \/ \E o \in DOMAIN broker_orders : OnSubmitted(o)
    \/ \E o \in DOMAIN broker_orders, n \in 1..MaxQty :
           OnExecutionData(o, n, StreamPrice)
    \/ \E id \in 1..MaxExecs, c \in 1..MaxCommission : OnCommissionReport(id, c)
    \/ \E t \in 1..MaxReports : StageCommission(t)

\* the runtime polls every spawned task once its timer has fired
SpecComm ==
    /\ Init
    /\ [][NextComm]_vars
    /\ \A t \in 1..MaxReports : WF_vars(StageCommission(t))

\* ====================================================== history backfill
\* required_num_bars: the bars since 09:00 when today is a trading day, and
\* 78 for each of the days - 1 trading days before
RequiredNumBars(days, is_trading_day_tdy, elapsed) ==
    (IF is_trading_day_tdy THEN elapsed ELSE 0) + (days - 1) * BarsPerDay

\* has_at_least_n_rows_since computes (n - 1) as i32 with n a u32: n = 0
\* overflows, which is a panic in a build with overflow checks
RowCountPanics(n, overflow_checks) == n = 0 /\ overflow_checks

\* has_at_least_n_rows_since: COUNT(*) > (n - 1) as i32; without overflow
\* checks 0 - 1 wraps to u32::MAX, and u32::MAX as i32 is -1
has_at_least_n_rows_since(count, n) ==
    IF n = 0 THEN count > -1 ELSE count > n - 1

\* the stored row counts the call may find: around the half-day leeway and
\* around the full days
StoredChoices(days) ==
    {n \in 0..((days - 1) * BarsPerDay) : n % HalfDay \in {0, HalfDay - 1}}

\* update_at_least_n_days_data up to its return. elapsed: 5-minute slots
\* since 09:00; today_bars: bars of today's session the broker holds
UpdateAtLeastNDaysData(days, is_trading_day_tdy, elapsed, today_bars, stored_prior, stored_today, overflow_checks, broker_ok) ==
    LET required_num_bars == RequiredNumBars(days, is_trading_day_tdy, elapsed)
        n == Max(required_num_bars - HalfDay, 0)
        passed == has_at_least_n_rows_since(stored_prior + stored_today, n)
        refresh_today == /\ is_trading_day_tdy
                         /\ today_bars > 1
                         /\ stored_today # today_bars
    IN  /\ backfill_result = "none"
        /\ today_bars <= elapsed
        /\ is_trading_day_tdy \/ today_bars = 0
        /\ backfill_days' = days
        /\ hist_prior' = stored_prior
        /\ hist_today' = stored_today
        /\ IF RowCountPanics(n, overflow_checks)
           THEN /\ backfill_result' = "panicked"
                /\ UNCHANGED backfill_tasks
           ELSE IF passed
           THEN \* enough rows: at most today's bars are requested again
                IF refresh_today /\ ~broker_ok
                THEN /\ backfill_result' = "panicked"
                     /\ UNCHANGED backfill_tasks
                ELSE /\ backfill_result' = "Ok"
                     /\ backfill_tasks' =
                            [prior |-> 0,
                             today |-> IF refresh_today
                                       THEN today_bars - stored_today ELSE 0]
           ELSE \* the whole span is requested and a task is spawned per bar
                IF ~broker_ok
                THEN /\ backfill_result' = "Err"
                     /\ UNCHANGED backfill_tasks
                ELSE /\ backfill_result' = "Ok"
                     /\ backfill_tasks' =
                            [prior |-> (days - 1) * BarsPerDay - stored_prior,
                             today |-> today_bars - stored_today]
        /\ UNCHANGED <<sessionVars, histFrame>>

\* a spawned task upserts its bar (a bar already stored changes no count)
WritePriorBar ==
    /\ backfill_tasks.prior > 0
    /\ hist_prior' = hist_prior + 1
    /\ backfill_tasks' = [backfill_tasks EXCEPT !.prior = @ - 1]
    /\ UNCHANGED <<hist_today, backfill_days, backfill_result>>
    /\ UNCHANGED <<sessionVars, histFrame>>

WriteTodayBar ==
    /\ backfill_tasks.today > 0
    /\ hist_today' = hist_today + 1
    /\ backfill_tasks' = [backfill_tasks EXCEPT !.today = @ - 1]
    /\ UNCHANGED <<hist_prior, backfill_days, backfill_result>>
    /\ UNCHANGED <<sessionVars, histFrame>>

ElapsedChoices == {0, HalfDay + 1}

NextBackfill ==
    \/ \E days \in 1..MaxDays, tdy \in BOOLEAN, elapsed \in ElapsedChoices,
          today_bars \in 0..MaxTodayBars, oc \in BOOLEAN, ok \in BOOLEAN :
         \E stored_prior \in StoredChoices(days), stored_today \in {0, today_bars} :
           UpdateAtLeastNDaysData(days, tdy, elapsed, today_bars, stored_prior,
                                  stored_today, oc, ok)
    \/ WritePriorBar
    \/ WriteTodayBar

SpecBackfill == Init /\ [][NextBackfill]_vars

\* ====================================================== strategy status
Statuses == {"Active", "Stopping", "Inactive"}

\* a strategy row the store holds when the session starts, with the status
\* the admin surface left it in
StoredStrategy(name, status) ==
    /\ ~engine_built
    /\ name \notin DOMAIN strategy_status
    /\ strategy_status' = Insert(strategy_status, name, status)
    /\ UNCHANGED <<sessionVars, strategy_started, syncVars, statusFrame>>

\* main: the start-up task of a strategy does create_or_ignore of its row
\* with status Active, then warms up and subscribes to its data
StartStrategy(name) ==
    /\ engine_built
    /\ name \notin strategy_started
    /\ strategy_status' = create_or_ignore(strategy_status, name, "Active")
    /\ strategy_started' = strategy_started \cup {name}
    /\ UNCHANGED <<sessionVars, syncVars, statusFrame>>

\* on_full_open_order_received: sync_open_orders received the Order and the
\* OrderStatus of open order o of the broker
on_full_open_order_received(oo, o) ==
    LET b == broker_orders[o]
        key == <<b.asset, SYMBOL>>
    IN  IF key \notin DOMAIN contract_to_strategy THEN oo
        ELSE IF o \in DOMAIN oo
        THEN IF oo[o].filled # b.cum THEN [oo EXCEPT ![o].filled = b.cum] ELSE oo
        ELSE IF contract_to_strategy[key] \notin DOMAIN strategy_status
        THEN oo     \* the insert names no row of trading.strategy and fails
        ELSE Insert(oo, o,
                 [strategy |-> contract_to_strategy[key], stock |-> SYMBOL,
                  asset |-> b.asset, quantity |-> b.total, filled |-> b.cum,
                  executions |-> <<>>])

\* sync_open_orders: the broker lists open order o
SyncOpenOrder(o) ==
    /\ engine_built
    /\ sync_runs < MaxSyncs
    /\ o \in LiveOrders
    /\ sync_runs' = sync_runs + 1
    /\ open_orders' = on_full_open_order_received(open_orders, o)
    /\ UNCHANGED <<transactions, positions, order_map, brokerVars,
                   placeVars, streamVars>>
    /\ UNCHANGED <<engine_built, contract_to_strategy, statusVars, statusFrame>>

NextStatus ==
    \/ \E name \in Strategies, st \in Statuses : StoredStrategy(name, st)
    \/ \E o \in OrderIds, r \in StreamRequests :
           ~engine_built /\ OutsideOrder(o, r.asset, r.action, r.total_quantity)
    \/ \E owners \in SUBSET Strategies : \E r \in StreamRequests :
           EngineNew(r.asset, owners)
    \/ \E o \in DOMAIN broker_orders : SyncOpenOrder(o)
    \/ \E name \in Strategies : StartStrategy(name)
    \/ \E o \in OrderIds, r \in StreamRequests :
           /\ STRAT \in strategy_started
           /\ PlaceOrder(o, r.asset, r.action, r.total_quantity)
    \/ \E o \in DOMAIN broker_orders : OnSubmitted(o)
    \/ \E o \in DOMAIN broker_orders, n \in 1..MaxQty :
           OnExecutionData(o, n, StreamPrice)
    \/ \E o \in DOMAIN broker_orders : OnCancelled(o)

SpecStatus == Init /\ [][NextStatus]_vars

\* ======================================================== security types
SecurityTypes == {"Stock", "Future", "ForexPair", "Option"}

\* the open-order table on_new_order_submitted writes for a security type
TableOf(security_type) == IF security_type = "Option" THEN "OPT" ELSE "STK"

\* place_order for a contract of the given security type
PlaceOrderOf(o, security_type, action, qty) ==
    /\ o = Cardinality(DOMAIN broker_orders) + 1
    /\ o <= MaxOrders
    /\ Cardinality(LiveOrders) < MaxLive
    /\ order_map' = Insert(order_map, o,
           [strategy |-> STRAT, stock |-> SYMBOL,
            asset |-> TableOf(security_type),
            security_type |-> security_type,
            action |-> action, total_quantity |-> qty])
    /\ broker_orders' = Insert(broker_orders, o,
           NewBrokerOrder(STRAT, TableOf(security_type), action, qty))
    /\ UNCHANGED <<dbVars, executions, redelivered>>
    /\ UNCHANGED <<placeVars, streamVars>>
    /\ UNCHANGED extVars

\* on_order_cancelled: the row is deleted for Stock and Future contracts
\* (stock table) and for Option contracts (option table)
on_order_cancelled(oo, o, strategy_order) ==
    IF strategy_order.security_type \in {"Stock", "Future", "Option"}
    THEN Delete(oo, o)
    ELSE oo

\* OrderStatus "Cancelled" / "ApiCancelled" of an order of any security type
OnCancelledOf(o) ==
    /\ o \in DOMAIN order_map
    /\ broker_orders[o].status \in {"placed", "working"}
    /\ open_orders' = on_order_cancelled(open_orders, o, order_map[o])
    /\ broker_orders' = [broker_orders EXCEPT ![o].status = "cancelled"]
    /\ UNCHANGED <<transactions, positions, order_map, executions,
                   redelivered>>
    /\ UNCHANGED <<placeVars, streamVars>>
    /\ UNCHANGED extVars

NextTypes ==
    \/ \E o \in OrderIds, st \in SecurityTypes, act \in Actions, q \in 1..MaxQty :
           PlaceOrderOf(o, st, act, q)
    \/ \E o \in DOMAIN broker_orders : OnSubmitted(o)
    \/ \E o \in DOMAIN broker_orders : OnCancelledOf(o)

SpecTypes == Init /\ [][NextTypes]_vars

\* ==================================================== attribution tasks
\* Every ExecutionData makes on_new_stock_execution / on_new_option_execution
\* spawn a task.  The task reads the open order, spawns the open-order write
\* and the transaction insert as tasks of their own, then reads and writes
\* the position.  The steps of different tasks interleave at every store
\* call.
ParseOutcomes == {"ok", "bad_time", "bad_right"}

\* the task spawned for execution e; parse is what parsing e's time and
\* option right will give
NewTask(e, parse) ==
    [e |-> e, parse |-> parse, pc |-> "read_order", open_order |-> <<>>,
     pos |-> <<>>, order_write |-> "none", transaction_write |-> "none"]

\* OrderUpdate::ExecutionData: the broker fills part or all of a working
\* order and on_execution_update spawns the task and returns
SpawnAttribution(o, shares, price, parse) ==
    LET b == broker_orders[o]
        e == BrokerExecution(o, shares, price)
    IN  /\ b.status = "working"
        /\ Len(executions) < MaxExecs
        /\ Len(attribution_tasks) < MaxTasks
        /\ e.cumulative_quantity <= b.total
        /\ parse = "bad_right" => b.asset = "OPT"
        /\ executions' = Append(executions, e)
        /\ broker_orders' = [broker_orders EXCEPT
               ![o].cum = e.cumulative_quantity,
               ![o].value = b.value + shares * price,
               ![o].status = IF e.cumulative_quantity = b.total
                             THEN "filled" ELSE b.status]
        /\ attribution_tasks' = Append(attribution_tasks, NewTask(e, parse))
        /\ UNCHANGED <<dbVars, order_map, redelivered>>
        /\ UNCHANGED <<placeVars, streamVars>>
        /\ UNCHANGED taskFrame

\* the task reads the open order.  Row found and execution new: the
\* open-order write is spawned, the time is parsed (a failure panics the
\* task), the transaction insert is spawned.  No row: the orphan handler
\* parses the time before it spawns anything, and each of its two tasks
\* parses the option right before its store call.
TaskReadOrder(t) ==
    LET task == attribution_tasks[t]
        e == task.e
    IN  /\ task.pc = "read_order"
        /\ attribution_tasks' = [attribution_tasks EXCEPT ![t] =
               IF e.order_id \in DOMAIN open_orders
               THEN IF IsNewExecution(open_orders, e)
                    THEN [task EXCEPT
                            !.open_order = <<open_orders[e.order_id]>>,
                            !.order_write = "pending",
                            !.transaction_write =
                                IF task.parse = "bad_time"
                                THEN "none" ELSE "pending",
                            !.pc = IF task.parse = "bad_time"
                                   THEN "panicked" ELSE "read_position"]
                    ELSE [task EXCEPT !.pc = "done"]
               ELSE IF task.parse = "ok"
                    THEN [task EXCEPT !.transaction_write = "pending",
                                      !.pc = "update_unknown"]
                    ELSE [task EXCEPT !.pc = "panicked"]]
        /\ UNCHANGED <<dbVars, order_map, brokerVars>>
        /\ UNCHANGED <<placeVars, streamVars>>
        /\ UNCHANGED taskFrame

\* the spawned open-order task: delete or update
TaskWriteOrder(t) ==
    LET task == attribution_tasks[t]
    IN  /\ task.order_write = "pending"
        /\ open_orders' = WriteOpenOrder(open_orders, task.open_order[1], task.e)
        /\ attribution_tasks' =
               [attribution_tasks EXCEPT ![t].order_write = "applied"]
        /\ UNCHANGED <<transactions, positions, order_map, brokerVars>>
        /\ UNCHANGED <<placeVars, streamVars>>
        /\ UNCHANGED taskFrame

\* the spawned transaction task: create
TaskWriteTransaction(t) ==
    LET task == attribution_tasks[t]
        e == task.e
    IN  /\ task.transaction_write = "pending"
        /\ transactions' =
               IF task.open_order = <<>>
               THEN CreateTransaction(transactions, UNKNOWN, e.average_price, e)
               ELSE CreateTransaction(transactions,
                        task.open_order[1].strategy, Rat(e.price, 1), e)
        /\ attribution_tasks' =
               [attribution_tasks EXCEPT ![t].transaction_write = "applied"]
        /\ UNCHANGED <<open_orders, positions, order_map, brokerVars>>
        /\ UNCHANGED <<placeVars, streamVars>>
        /\ UNCHANGED taskFrame

PositionKey(task) ==
    <<task.e.asset, task.open_order[1].strategy, task.open_order[1].stock>>

\* the task reads the position of the open order's strategy
TaskReadPosition(t) ==
    LET task == attribution_tasks[t]
        key == PositionKey(task)
    IN  /\ task.pc = "read_position"
        /\ attribution_tasks' = [attribution_tasks EXCEPT ![t] =
               [task EXCEPT !.pos = IF key \in DOMAIN positions
                                    THEN <<positions[key]>> ELSE <<>>,
                            !.pc = "write_position"]]
        /\ UNCHANGED <<dbVars, order_map, brokerVars>>
        /\ UNCHANGED <<placeVars, streamVars>>
        /\ UNCHANGED taskFrame

\* the task writes the position it computed from the row it read: update
\* when it read a row, create (a plain INSERT) when it read none
WritePosition(ps, task) ==
    LET key == PositionKey(task)
        e == task.e
    IN  IF task.pos # <<>>
        THEN IF key \in DOMAIN ps
             THEN [ps EXCEPT ![key] = NewPosition(task.pos[1], e)]
             ELSE ps
        ELSE IF key \in DOMAIN ps
             THEN ps
             ELSE Insert(ps, key, [quantity |-> FirstPositionQuantity(e),
                                   avg_price |-> Rat(e.price, 1)])

TaskWritePosition(t) ==
    LET task == attribution_tasks[t]
    IN  /\ task.pc = "write_position"
        /\ positions' = WritePosition(positions, task)
        /\ attribution_tasks' = [attribution_tasks EXCEPT ![t].pc = "done"]
        /\ UNCHANGED <<open_orders, transactions, order_map, brokerVars>>
        /\ UNCHANGED <<placeVars, streamVars>>
        /\ UNCHANGED taskFrame

\* the orphan handler's position task: update_unknown_strat_positions
TaskUpdateUnknown(t) ==
    LET task == attribution_tasks[t]
        e == task.e
    IN  /\ task.pc = "update_unknown"
        /\ positions' = update_unknown_strat_positions(positions,
                            e.asset, e.symbol, UnknownDelta(e))
        /\ attribution_tasks' = [attribution_tasks EXCEPT ![t].pc = "done"]
        /\ UNCHANGED <<open_orders, transactions, order_map, brokerVars>>
        /\ UNCHANGED <<placeVars, streamVars>>
        /\ UNCHANGED taskFrame

NextTasks ==
    \/ \E o \in OrderIds, a \in Assets, act \in Actions, q \in 1..MaxQty :
           PlaceOrder(o, a, act, q)
    \/ \E o \in DOMAIN broker_orders : OnSubmitted(o)
    \/ \E o \in DOMAIN broker_orders, n \in 1..MaxQty,
          parse \in ParseOutcomes : SpawnAttribution(o, n, StreamPrice, parse)
    \/ \E t \in 1..Len(attribution_tasks) : TaskReadOrder(t)
    \/ \E t \in 1..Len(attribution_tasks) : TaskWriteOrder(t)
    \/ \E t \in 1..Len(attribution_tasks) : TaskWriteTransaction(t)
    \/ \E t \in 1..Len(attribution_tasks) : TaskReadPosition(t)
    \/ \E t \in 1..Len(attribution_tasks) : TaskWritePosition(t)
    \/ \E t \in 1..Len(attribution_tasks) : TaskUpdateUnknown(t)

SpecTasks == Init /\ [][NextTasks]_vars

\* ================================================= subscription registry
\* Consolidator::subscribe_to_data.  An instrument is the pair (symbol,
\* primary exchange); the exchange is the same for every contract here.
Instruments == {SYMBOL, SYMBOL_B}

\* bar sizes in minutes a strategy subscribes to
Timesteps == {5, 10}

\* the early return: this strategy already subscribes to the instrument at
\* this timestep
AlreadySubscribed(subs, strategy, contract, timestep) ==
    /\ contract \in DOMAIN subs
    /\ timestep \in DOMAIN subs[contract]
    /\ strategy \in subs[contract][timestep]

\* the flag that decides whether the stream thread is spawned: set when the
\* instrument's entry or the timestep's entry had to be created
is_non_existing_entry(subs, contract, timestep) ==
    \/ contract \notin DOMAIN subs
    \/ timestep \notin DOMAIN subs[contract]

\* the registry after the strategy has been recorded
RecordSubscriber(subs, strategy, contract, timestep) ==
    LET s1 == IF contract \notin DOMAIN subs
              THEN Insert(subs, contract, EmptyTable) ELSE subs
        s2 == IF timestep \notin DOMAIN s1[contract]
              THEN [s1 EXCEPT ![contract] = Insert(@, timestep, {})] ELSE s1
    IN  [s2 EXCEPT ![contract][timestep] = @ \cup {strategy}]

SubscribeToData(strategy, contract, timestep) ==
    /\ IF AlreadySubscribed(subscriptions, strategy, contract, timestep)
       THEN UNCHANGED regVars
       ELSE /\ subscriptions' =
                   RecordSubscriber(subscriptions, strategy, contract, timestep)
            /\ IF is_non_existing_entry(subscriptions, contract, timestep)
               THEN /\ live_data' = Insert(live_data, contract,
                                           Len(stream_threads) + 1)
                    /\ stream_threads' = Append(stream_threads, contract)
               ELSE UNCHANGED <<live_data, stream_threads>>
    /\ UNCHANGED sessionVars
    /\ UNCHANGED regFrame

NextRegistry ==
    \E strategy \in Strategies, contract \in Instruments, timestep \in Timesteps :
        SubscribeToData(strategy, contract, timestep)

SpecRegistry == Init /\ [][NextRegistry]_vars

\* ========================================================== bar dispatch
\* Consolidator::on_bar_update persists a consolidated 5-minute bar and sends
\* (contract, bar time + 5 minutes) to the channel of begin_bar_listening,
\* which dispatches it to the subscribed strategies.  Times are minute
\* offsets from 09:30 New York of the same day.
BarMinutes == WindowSecs \div 60

\* the window starts of the consolidated bars: multiples of 5 minutes
BarMinuteOffsets == {-10, -5, 0, 5, 10}

LastBarMinute ==
    IF bar_minutes = <<>> THEN -(3 * BarMinutes) ELSE bar_minutes[Len(bar_minutes)]

\* the task fed by the stream thread receives the next consolidated bar of
\* the instrument and runs on_bar_update: stocks and options are upserted;
\* after a successful upsert the update is sent to the channel
OnBarUpdate(contract, security_type, minute, store_ok) ==
    /\ contract \in DOMAIN subscriptions
    /\ Len(bar_minutes) < MaxSessionBars
    /\ minute > LastBarMinute
    /\ bar_minutes' = Append(bar_minutes, minute)
    /\ IF security_type \in {"Option", "Stock"} /\ store_ok
       THEN /\ historical_rows' = historical_rows \cup {<<contract, minute>>}
            /\ contract_update_channel' =
                   Append(contract_update_channel,
                          [contract |-> contract, time |-> minute + BarMinutes])
       ELSE UNCHANGED <<historical_rows, contract_update_channel>>
    /\ UNCHANGED strategy_tasks
    /\ UNCHANGED sessionVars
    /\ UNCHANGED dispFrame

\* the strategies begin_bar_listening dispatches an update to: those
\* subscribed to the contract at a timestep that divides the minutes elapsed
\* since 09:30 at the update's time
Dispatched(subs, update) ==
    IF update.time < 0
    THEN {}
    ELSE {[strategy |-> ts[2], contract |-> update.contract,
           time |-> update.time, timestep |-> ts[1], result |-> "pending",
           placed |-> FALSE] :
            ts \in {x \in (DOMAIN subs[update.contract]) \X Strategies :
                       /\ update.time % x[1] = 0
                       /\ x[2] \in subs[update.contract][x[1]]}}

\* one iteration of the loop of begin_bar_listening
BarListener ==
    /\ contract_update_channel # <<>>
    /\ contract_update_channel' = Tail(contract_update_channel)
    /\ strategy_tasks' = strategy_tasks \cup
                         Dispatched(subscriptions, Head(contract_update_channel))
    /\ UNCHANGED <<bar_minutes, historical_rows>>
    /\ UNCHANGED sessionVars
    /\ UNCHANGED dispFrame

\* what strategy.on_bar_update may return
BarUpdateResults == {"updated", "not_updated", "error"}

\* whether the spawned task goes on to place_orders_for_strategy: it returns
\* early only for Ok with updated == false
PlacesOrders(result) == result # "not_updated"

\* the task spawned for one strategy: on_bar_update, then
\* place_orders_for_strategy
StrategyTask(task, result) ==
    /\ task \in strategy_tasks
    /\ task.result = "pending"
    /\ strategy_tasks' = (strategy_tasks \ {task}) \cup
           {[task EXCEPT !.result = result, !.placed = PlacesOrders(result)]}
    /\ UNCHANGED <<bar_minutes, historical_rows, contract_update_channel>>
    /\ UNCHANGED sessionVars
    /\ UNCHANGED dispFrame

NextDispatch ==
    \/ \E strategy \in Strategies, timestep \in Timesteps :
           SubscribeToData(strategy, SYMBOL, timestep)
    \/ \E security_type \in SecurityTypes, minute \in BarMinuteOffsets,
          store_ok \in BOOLEAN :
           OnBarUpdate(SYMBOL, security_type, minute, store_ok)
    \/ BarListener
    \/ \E task \in strategy_tasks, result \in BarUpdateResults :
           StrategyTask(task, result)

SpecDispatch == Init /\ [][NextDispatch]_vars

\* ========================================================== batch ingest
\* HistoricalDataCRUD: batch_create_or_update sends a row to the channel
\* opened by init_channel; the spawned loop buffers the rows and flushes the
\* buffer with flush_batch (one transaction).  Rows are numbered in the order
\* they are sent.  Time advances in steps of TickMs.
TickMs == MAX_BATCH_WAIT_MS \div 2

\* flush_batch: the whole batch is committed, or on an error nothing is
flush_batch(stored, buffer, flush_ok) ==
    IF flush_ok THEN stored \cup {buffer[i] : i \in 1..Len(buffer)} ELSE stored

\* batch_create_or_update: the result of send is discarded and Ok(()) is
\* returned; send fails once the loop has ended and dropped the receiver
BatchCreateOrUpdate(row) ==
    /\ row = Cardinality(accepted_rows) + 1
    /\ row <= MaxIngestRows
    /\ batch_loop = "running" => Len(ingest_channel) < IngestChannelCapacity
    /\ ingest_channel' = IF batch_loop = "running"
                         THEN Append(ingest_channel, row) ELSE ingest_channel
    /\ accepted_rows' = accepted_rows \cup {row}
    /\ UNCHANGED <<batch_buffer, stored_rows, batch_loop, shutdown_channel,
                   shutdown_sender_taken, last_flush_elapsed, sleep_elapsed,
                   buffer_age, flush_error_logged>>
    /\ UNCHANGED sessionVars
    /\ UNCHANGED batchFrame

\* close_channel: takes the shutdown sender and sends true
CloseChannel ==
    /\ ~shutdown_sender_taken
    /\ shutdown_sender_taken' = TRUE
    /\ shutdown_channel' = IF batch_loop = "running"
                           THEN Append(shutdown_channel, TRUE)
                           ELSE shutdown_channel
    /\ UNCHANGED <<ingest_channel, batch_buffer, stored_rows, accepted_rows,
                   batch_loop, last_flush_elapsed, sleep_elapsed, buffer_age,
                   flush_error_logged>>
    /\ UNCHANGED sessionVars
    /\ UNCHANGED batchFrame

\* select! branch rx.recv(): push the row, flush and clear at BATCH_SIZE
LoopRecv(flush_ok) ==
    LET buffer == Append(batch_buffer, Head(ingest_channel))
        full == Len(buffer) >= BATCH_SIZE
    IN  /\ batch_loop = "running"
        /\ ingest_channel # <<>>
        /\ ingest_channel' = Tail(ingest_channel)
        /\ stored_rows' = IF full THEN flush_batch(stored_rows, buffer, flush_ok)
                          ELSE stored_rows
        /\ batch_buffer' = IF full THEN <<>> ELSE buffer
        /\ last_flush_elapsed' = IF full THEN 0 ELSE last_flush_elapsed
        /\ flush_error_logged' = (flush_error_logged \/ (full /\ ~flush_ok))
        /\ buffer_age' = IF batch_buffer = <<>> THEN 0 ELSE buffer_age
        /\ sleep_elapsed' = 0
        /\ UNCHANGED <<accepted_rows, batch_loop, shutdown_channel,
                       shutdown_sender_taken>>
        /\ UNCHANGED sessionVars
        /\ UNCHANGED batchFrame

\* select! branch shutdown_rx.recv(): flush what is in the buffer and leave
\* the loop; the receivers are dropped
LoopShutdown(flush_ok) ==
    /\ batch_loop = "running"
    /\ shutdown_channel # <<>>
    /\ shutdown_channel' = Tail(shutdown_channel)
    /\ stored_rows' = IF batch_buffer # <<>>
                      THEN flush_batch(stored_rows, batch_buffer, flush_ok)
                      ELSE stored_rows
    /\ flush_error_logged' =
           (flush_error_logged \/ (batch_buffer # <<>> /\ ~flush_ok))
    /\ batch_loop' = "ended"
    /\ UNCHANGED <<ingest_channel, batch_buffer, accepted_rows,
                   shutdown_sender_taken, last_flush_elapsed, sleep_elapsed,
                   buffer_age>>
    /\ UNCHANGED sessionVars
    /\ UNCHANGED batchFrame

\* the buffer after the flush of the timer branch: cleared whatever
\* flush_batch returned
AfterTimerFlush(buffer, flush_ok) == <<>>

\* select! branch sleep(MAX_BATCH_WAIT_MS): the sleep of this iteration has
\* expired; flush when the buffer is non-empty and the last flush is at
\* least MAX_BATCH_WAIT_MS ago
LoopTimer(flush_ok) ==
    LET due == batch_buffer # <<>> /\ last_flush_elapsed >= MAX_BATCH_WAIT_MS
    IN  /\ batch_loop = "running"
        /\ sleep_elapsed >= MAX_BATCH_WAIT_MS
        /\ stored_rows' = IF due
                          THEN flush_batch(stored_rows, batch_buffer, flush_ok)
                          ELSE stored_rows
        /\ batch_buffer' = IF due THEN AfterTimerFlush(batch_buffer, flush_ok)
                           ELSE batch_buffer
        /\ last_flush_elapsed' = IF due THEN 0 ELSE last_flush_elapsed
        /\ flush_error_logged' = (flush_error_logged \/ (due /\ ~flush_ok))
        /\ sleep_elapsed' = 0
        /\ UNCHANGED <<ingest_channel, accepted_rows, batch_loop,
                       shutdown_channel, shutdown_sender_taken, buffer_age>>
        /\ UNCHANGED sessionVars
        /\ UNCHANGED batchFrame

\* TickMs pass while the loop waits in select! with no branch ready; the
\* loop reacts to a row, a signal or an expired sleep before more time passes
Tick ==
    /\ batch_loop = "running"
    /\ ingest_channel = <<>>
    /\ shutdown_channel = <<>>
    /\ sleep_elapsed < MAX_BATCH_WAIT_MS
    /\ last_flush_elapsed + TickMs <= MaxTicks * TickMs
    /\ last_flush_elapsed' = last_flush_elapsed + TickMs
    /\ sleep_elapsed' = sleep_elapsed + TickMs
    /\ buffer_age' = IF batch_buffer # <<>> THEN buffer_age + TickMs ELSE 0
    /\ UNCHANGED <<ingest_channel, batch_buffer, stored_rows, accepted_rows,
                   batch_loop, shutdown_channel, shutdown_sender_taken,
                   flush_error_logged>>
    /\ UNCHANGED sessionVars
    /\ UNCHANGED batchFrame

NextBatch ==
    \/ \E row \in 1..MaxIngestRows : BatchCreateOrUpdate(row)
    \/ CloseChannel
    \/ \E flush_ok \in BOOLEAN : LoopRecv(flush_ok)
    \/ \E flush_ok \in BOOLEAN : LoopShutdown(flush_ok)
    \/ \E flush_ok \in BOOLEAN : LoopTimer(flush_ok)
    \/ Tick

SpecBatch == Init /\ [][NextBatch]_vars

\* ============================================================== claims
RECURSIVE SumQuantity(_, _)
SumQuantity(tx, ids) ==
    IF ids = {} THEN 0
    ELSE LET i == CHOOSE x \in ids : TRUE
         IN  tx[i].quantity + SumQuantity(tx, ids \ {i})

\* sum of the signed quantities of the transactions of a strategy+instrument
TransactionSum(asset, strategy) ==
    SumQuantity(transactions,
        {i \in DOMAIN transactions :
            /\ transactions[i].asset = asset
            /\ transactions[i].strategy = strategy})

\* quantity held by a strategy, 0 when it has no position row
PositionQuantity(ps, asset, strategy) ==
    IF <<asset, strategy, SYMBOL>> \in DOMAIN ps
    THEN ps[<<asset, strategy, SYMBOL>>].quantity
    ELSE 0

\* a step of the session hands execution e to on_execution_update
Handles(e) ==
    \/ \E o \in DOMAIN broker_orders, n \in 1..MaxQty, p \in Prices :
           OnExecutionData(o, n, p) /\ e = BrokerExecution(o, n, p)
    \/ \E i \in 1..Len(executions) : SyncExecution(i) /\ e = executions[i]

\* every execution a step may hand to on_execution_update
StepExecutions ==
    {BrokerExecution(o, n, p) :
        o \in DOMAIN broker_orders, n \in 1..MaxQty, p \in Prices}
    \cup {executions[i] : i \in 1..Len(executions)}

\* C1: delivering an execution id again leaves the open-order rows, the
\* transactions and the positions (the unknown strategy's included) as the
\* first delivery left them
C1_ExecutionIdempotent ==
    [][\A i \in 1..Len(executions) : SyncExecution(i) => UNCHANGED dbVars]_vars

\* C2: the position of a strategy in an instrument equals the sum of the
\* signed quantities of the transactions booked to that strategy+instrument
C2_Conservation ==
    \A asset \in Assets :
        PositionQuantity(positions, asset, STRAT) = TransactionSum(asset, STRAT)

\* the execution is attributed to an open order whose strategy already has a
\* position in the instrument with a direction (non-zero quantity)
UpdatesPosition(e) ==
    /\ IsNewExecution(open_orders, e)
    /\ <<e.asset, open_orders[e.order_id].strategy, SYMBOL>> \in DOMAIN positions
    /\ positions[<<e.asset, open_orders[e.order_id].strategy, SYMBOL>>].quantity # 0

AveragePriceRule(e) ==
    LET key == <<e.asset, open_orders[e.order_id].strategy, SYMBOL>>
        cur == positions[key]
        new == positions'[key]
        a == Abs(cur.quantity)
    IN  IF Sign(cur.quantity) = Sign(SignedShares(e))
        THEN \* new_avg * (|cur_q| + q) = |cur_q| * avg + q * p
             new.avg_price[1] * cur.avg_price[2] * (a + e.shares)
               = (a * cur.avg_price[1] + e.shares * e.price * cur.avg_price[2])
                   * new.avg_price[2]
        ELSE IF e.shares > a
             THEN /\ new.avg_price = <<e.price, 1>>
                  /\ Sign(new.quantity) = -Sign(cur.quantity)
             ELSE /\ new.avg_price = cur.avg_price
                  /\ Abs(new.quantity) = a - e.shares
                  /\ Sign(new.quantity) \in {0, Sign(cur.quantity)}

\* C3: a fill in the direction of the position averages the price by
\* quantity; an opposing fill larger than the position sets the price to the
\* fill's and reverses the sign; any other opposing fill keeps the price and
\* only reduces the magnitude
C3_AveragePrice ==
    [][\A e \in StepExecutions :
          (Handles(e) /\ UpdatesPosition(e)) => AveragePriceRule(e)]_vars

\* C4: an execution whose order has no open-order row is booked to the
\* unknown strategy: a transaction with the signed quantity exists and the
\* unknown position moved by that signed quantity
C4_OrphanRouting ==
    [][\A e \in StepExecutions :
          (Handles(e) /\ e.order_id \notin DOMAIN open_orders) =>
              /\ e.execution_id \in DOMAIN transactions'
              /\ transactions'[e.execution_id].strategy = UNKNOWN
              /\ transactions'[e.execution_id].quantity = SignedShares(e)
              /\ PositionQuantity(positions', e.asset, UNKNOWN)
                   = PositionQuantity(positions, e.asset, UNKNOWN)
                       + SignedShares(e)]_vars

\* the executions of order o in the order the broker produced them
RECURSIVE OrderExecutions(_, _)
OrderExecutions(o, n) ==
    IF n = 0 THEN <<>>
    ELSE IF executions[n].order_id = o
         THEN Append(OrderExecutions(o, n - 1), executions[n])
         ELSE OrderExecutions(o, n - 1)

RECURSIVE SumShares(_)
SumShares(es) == IF es = <<>> THEN 0 ELSE Head(es).shares + SumShares(Tail(es))

C6_OpenOrderRow ==
    \A o \in DOMAIN open_orders :
        LET row == open_orders[o]
        IN  /\ Abs(row.filled) <= Abs(row.quantity)
            /\ row.filled # 0 => Sign(row.filled) = Sign(row.quantity)
            /\ row.quantity < 0 <=> broker_orders[o].action = "Sell"

\* C7: the order-update consumer never stops: whatever event it receives,
\* an event for an order id that is not in order_map included, the consumer
\* task is still running afterwards
C7_ConsumerNeverFails == consumer = "running"

\* C8: the events of one order are handled in the order in which the broker
\* produced them
C8_PerOrderOrdering ==
    \A i \in 1..Len(handled), j \in 1..Len(handled) :
        (i < j /\ handled[i].order_id = handled[j].order_id)
            => handled[i].seq < handled[j].seq

\* order ids obtained by the place_order calls
PlacedIds == {place_id[p] : p \in {r \in 1..MaxPlace : place_pc[r] > 1}}

\* the events the broker has produced that are queued, in flight or handled
EventsProduced ==
    {subscription[i] : i \in 1..Len(subscription)} \cup helpers
    \cup {channel[i] : i \in 1..Len(channel)}
    \cup {handled[i] : i \in 1..Len(handled)}

\* C9: an order id that place_order has submitted to the broker is in
\* order_map, and so is the order id of every broker event of such an order
C9_InsertBeforeSubmit ==
    /\ \A o \in PlacedIds : o \in DOMAIN broker_orders => o \in DOMAIN order_map
    /\ \A ev \in EventsProduced :
           ev.order_id \in PlacedIds => ev.order_id \in DOMAIN order_map

\* the consumer has handled the Submitted event of an order placed by
\* place_order
C9_Witness ==
    \E i \in 1..Len(handled) :
        /\ handled[i].order_id \in PlacedIds
        /\ handled[i].kind = "Submitted"
        /\ handled[i].order_id \in DOMAIN open_orders

\* C10: when submit_order fails, place_order and OrderEngine::place_order
\* both report an error and the order_map entry of the order id is kept
C10_RejectionReported ==
    \A p \in 1..MaxPlace :
        (/\ place_pc[p] = Returned
         /\ place_id[p] \in DOMAIN broker_orders
         /\ broker_orders[place_id[p]].status = "rejected")
            => /\ fn_result[p] = "Err"
               /\ engine_result[p] = "Err"
               /\ place_id[p] \in DOMAIN order_map

\* the 5-second bars of the stream that fall into window w
RECURSIVE WindowBars(_, _)
WindowBars(w, n) ==
    IF n = 0 THEN <<>>
    ELSE IF Bucket(bar_stream[n].t) = w
         THEN Append(WindowBars(w, n - 1), bar_stream[n])
         ELSE WindowBars(w, n - 1)

RECURSIVE SumVolume(_)
SumVolume(bs) == IF bs = <<>> THEN 0 ELSE Head(bs).volume + SumVolume(Tail(bs))

\* C11: every 5-minute bar sent carries the start of its window as its time,
\* the open of the window's first 5-second bar, the highest high, the lowest
\* low, the close of the window's last bar and the sum of the volumes of all
\* the 5-second bars the stream delivered for that window, and a bar of a
\* later window has arrived
C11_BarValues ==
    \A i \in 1..Len(bars_sent) :
        LET out == bars_sent[i]
            bs == WindowBars(out.t, Len(bar_stream))
        IN  /\ out.t = Bucket(out.t)
            /\ bs # <<>>
            /\ out.open = bs[1].open
            /\ \A k \in 1..Len(bs) : out.high >= bs[k].high /\ out.low <= bs[k].low
            /\ \E k \in 1..Len(bs) : out.high = bs[k].high
            /\ \E k \in 1..Len(bs) : out.low = bs[k].low
            /\ out.close = bs[Len(bs)].close
            /\ out.volume = SumVolume(bs)
            /\ \E k \in 1..Len(bar_stream) : Bucket(bar_stream[k].t) > out.t

\* C12: no 5-minute window is sent twice
C12_NoWindowTwice ==
    \A i \in 1..Len(bars_sent), j \in 1..Len(bars_sent) :
        i # j => bars_sent[i].t # bars_sent[j].t

\* signed quantity of a broker order: negative for a Sell
SignedTotal(o) ==
    (IF broker_orders[o].action = "Sell" THEN -1 ELSE 1) * broker_orders[o].total

RECURSIVE SumSignedTotal(_)
SumSignedTotal(ids) ==
    IF ids = {} THEN 0
    ELSE LET o == CHOOSE x \in ids : TRUE
         IN  SignedTotal(o) + SumSignedTotal(ids \ {o})

\* C13: when every order the engine placed for the strategy+instrument has
\* fully filled and the orders add up to the target (each was placed for the
\* diff between the target and the position), the next diff is 0
C13_RoundTrip ==
    \A asset \in Assets :
        (/\ DOMAIN broker_orders # {}
         /\ \A o \in DOMAIN broker_orders :
                broker_orders[o].asset = asset /\ broker_orders[o].status = "filled"
         /\ SumSignedTotal(DOMAIN broker_orders)
              = Coalesce(target, <<asset, STRAT, SYMBOL>>))
            => get_target_pos_diff(target, positions, asset) = {0}

\* the diff the store returns for the strategy+instrument
QtyDiffOf(asset) ==
    Coalesce(target, <<asset, STRAT, SYMBOL>>)
        - Coalesce(positions, <<asset, STRAT, SYMBOL>>)

\* the unfilled quantity of the strategy's open orders, as a magnitude
RECURSIVE OpenRemaining(_)
OpenRemaining(ids) ==
    IF ids = {} THEN 0
    ELSE LET o == CHOOSE x \in ids : TRUE
         IN  Abs(open_orders[o].quantity) - Abs(open_orders[o].filled)
               + OpenRemaining(ids \ {o})

\* the strategy has open orders and all of them are in the direction of the
\* diff
OpenInDirection(asset) ==
    /\ QtyDiffOf(asset) # 0
    /\ OrdersForStrat(asset) # {}
    /\ \A o \in OrdersForStrat(asset) :
           Sign(open_orders[o].quantity) = Sign(QtyDiffOf(asset))

\* C19: when the open orders are in the direction of the diff and their
\* remaining quantity is smaller than |diff|, nothing is cancelled or
\* deleted and exactly one order of size |diff| - remaining is placed in the
\* direction of the diff
C19_TopUp ==
    [][\A a \in Assets, zs \in {-1, 1} :
          (/\ PlaceOrdersForStrategy(a, zs)
           /\ OpenInDirection(a)
           /\ OpenRemaining(OrdersForStrat(a)) < Abs(QtyDiffOf(a)))
            => /\ open_orders' = open_orders
               /\ \A o \in DOMAIN broker_orders : broker_orders'[o] = broker_orders[o]
               /\ \E o \in DOMAIN broker_orders' \ DOMAIN broker_orders :
                      /\ DOMAIN broker_orders' = DOMAIN broker_orders \cup {o}
                      /\ broker_orders'[o].total
                           = Abs(QtyDiffOf(a)) - OpenRemaining(OrdersForStrat(a))
                      /\ broker_orders'[o].action
                           = IF QtyDiffOf(a) > 0 THEN "Buy" ELSE "Sell"]_vars

\* C20: when the open orders already cover the diff in direction and
\* magnitude, a bar update cancels nothing, places nothing and deletes no
\* open-order row
C20_SteadyState ==
    [][\A a \in Assets, zs \in {-1, 1} :
          (/\ PlaceOrdersForStrategy(a, zs)
           /\ OpenInDirection(a)
           /\ OpenRemaining(OrdersForStrat(a)) = Abs(QtyDiffOf(a)))
            => UNCHANGED <<open_orders, broker_orders, order_map>>]_vars

\* C14: when the broker's quantity differs from the sum of the local rows
\* of the instrument, the unknown strategy's position changes by exactly
\* that difference and no other strategy's row is created, changed or
\* deleted; when they are equal nothing changes
C14_Reconciliation ==
    [][\A a \in Assets, q \in (-MaxPos)..MaxPos :
          (SyncPositions(a, q) /\ LocalRows(positions, a) # {})
            => LET local_sum == SumRows(positions, LocalRows(positions, a))
               IN  IF local_sum = q
                   THEN positions' = positions
                   ELSE /\ PositionQuantity(positions', a, UNKNOWN)
                             = PositionQuantity(positions, a, UNKNOWN) + (q - local_sum)
                        /\ \A k \in DOMAIN positions \cup DOMAIN positions' :
                               k # <<a, UNKNOWN, SYMBOL>> =>
                                   /\ k \in DOMAIN positions
                                   /\ k \in DOMAIN positions'
                                   /\ positions'[k] = positions[k]]_vars

\* the commission of the last report received for an execution id
LastCommission(execution_id) ==
    LET idx == {i \in 1..Len(commission_reports) :
                    commission_reports[i].execution_id = execution_id}
        last == CHOOSE i \in idx : \A j \in idx : j <= i
    IN  commission_reports[last].commission

\* C15: every commission report received ends up staged, whether its
\* execution was handled before or after it, the staged fees are those of
\* the last report received for the execution id, and only the staging
\* task writes the table
C15_CommissionStaged ==
    /\ <>[](\A i \in 1..Len(commission_reports) :
              LET id == commission_reports[i].execution_id
              IN  /\ id \in DOMAIN staged_commissions
                  /\ staged_commissions[id].fees = LastCommission(id))
    /\ [][staged_commissions' # staged_commissions
             => \E t \in 1..MaxReports : StageCommission(t)]_vars

\* C16: once update_at_least_n_days_data has returned Ok for d days, the
\* store holds at least (d - 1) * 78 rows of the contract since the start
\* of the d-th trading day back
C16_BackfillSufficient ==
    backfill_result = "Ok"
        => hist_prior + hist_today >= (backfill_days - 1) * BarsPerDay

\* C17: every open-order row names a strategy that exists and whose status
\* is Active or Stopping
C17_OpenOrderStrategyLive ==
    \A o \in DOMAIN open_orders :
        /\ open_orders[o].strategy \in DOMAIN strategy_status
        /\ strategy_status[open_orders[o].strategy] \in {"Active", "Stopping"}

\* C18: create_or_ignore leaves an existing row with the same primary key
\* as it is, inserts the row when the key is absent, and a second
\* application changes nothing; checked where the core calls it, on the
\* strategy table and on the open-order table
C18_CreateOrIgnore ==
    [][/\ \A name \in Strategies :
            StartStrategy(name) =>
                /\ name \in DOMAIN strategy_status
                       => strategy_status' = strategy_status
                /\ name \notin DOMAIN strategy_status
                       => /\ DOMAIN strategy_status' = DOMAIN strategy_status \cup {name}
                          /\ strategy_status'[name] = "Active"
                          /\ \A x \in DOMAIN strategy_status :
                                 strategy_status'[x] = strategy_status[x]
                /\ \A st \in Statuses :
                       create_or_ignore(strategy_status', name, st) = strategy_status'
       /\ \A o \in DOMAIN broker_orders :
            OnSubmitted(o) =>
                /\ o \in DOMAIN open_orders => open_orders' = open_orders
                /\ o \notin DOMAIN open_orders
                       => /\ DOMAIN open_orders' = DOMAIN open_orders \cup {o}
                          /\ open_orders'[o].strategy = order_map[o].strategy
                          /\ \A x \in DOMAIN open_orders :
                                 open_orders'[x] = open_orders[x]]_vars

\* a strategy was started while its row existed with another status, and an
\* order was submitted again after part of it had filled
C18_Witness ==
    /\ \E name \in strategy_started : strategy_status[name] = "Inactive"
    /\ \E o \in DOMAIN open_orders :
           /\ open_orders[o].filled # 0
           /\ broker_orders[o].status = "working"

\* the open orders of the strategy on the instrument the diff is about
InstrumentOrders(asset) ==
    {o \in DOMAIN open_orders :
        /\ open_orders[o].strategy = STRAT
        /\ open_orders[o].asset = asset
        /\ open_orders[o].stock = SYMBOL}

\* C21: when the diff of the instrument is 0, exactly the strategy's open
\* orders on that instrument are cancelled and their rows deleted, nothing
\* is placed, and the strategy's orders on other instruments are left alone
C21_ZeroDiff ==
    [][\A a \in Assets, zs \in {-1, 1} :
          (/\ PlaceOrdersForStrategy(a, zs)
           /\ get_target_pos_diff(target, positions, a) = {0})
            => LET ids == InstrumentOrders(a)
               IN  /\ DOMAIN open_orders' = DOMAIN open_orders \ ids
                   /\ \A x \in DOMAIN open_orders' : open_orders'[x] = open_orders[x]
                   /\ DOMAIN broker_orders' = DOMAIN broker_orders
                   /\ \A x \in DOMAIN broker_orders :
                          IF x \in ids /\ broker_orders[x].status \in {"placed", "working"}
                          THEN broker_orders'[x].status = "cancelled"
                          ELSE broker_orders'[x] = broker_orders[x]]_vars

\* the strategy's open orders point away from the diff, or point the same
\* way with more remaining than the diff asks for
WrongWayOrOvershoot(asset) ==
    /\ QtyDiffOf(asset) # 0
    /\ get_target_pos_diff(target, positions, asset) # {}
    /\ OrdersForStrat(asset) # {}
    /\ \/ \A o \in OrdersForStrat(asset) :
              Sign(open_orders[o].quantity) = -Sign(QtyDiffOf(asset))
       \/ /\ \A o \in OrdersForStrat(asset) :
                 Sign(open_orders[o].quantity) = Sign(QtyDiffOf(asset))
          /\ OpenRemaining(OrdersForStrat(asset)) > Abs(QtyDiffOf(asset))

\* C22: in the wrong-direction or overshoot case every open order of the
\* strategy is cancelled, its row is deleted from its open-order table, and
\* exactly one order of size |diff| is placed in the direction of the diff,
\* for stock and option orders alike
C22_Replacement ==
    [][\A a \in Assets, zs \in {-1, 1} :
          (PlaceOrdersForStrategy(a, zs) /\ WrongWayOrOvershoot(a))
            => LET ids == OrdersForStrat(a)
               IN  /\ DOMAIN open_orders' = DOMAIN open_orders \ ids
                   /\ \A x \in ids :
                          broker_orders[x].status \in {"placed", "working"}
                              => broker_orders'[x].status = "cancelled"
                   /\ \E o \in DOMAIN broker_orders' \ DOMAIN broker_orders :
                          /\ DOMAIN broker_orders' = DOMAIN broker_orders \cup {o}
                          /\ broker_orders'[o].total = Abs(QtyDiffOf(a))
                          /\ broker_orders'[o].action
                               = IF QtyDiffOf(a) > 0 THEN "Buy" ELSE "Sell"]_vars

\* C23: every order the target-diff placement places is a market order
\* when the target's avg_price is 0 and else a limit order at that price,
\* when it replaces the open orders and when it tops them up
C23_OrderType ==
    [][\A a \in Assets, zs \in {-1, 1} :
          PlaceOrdersForStrategy(a, zs)
            => \A o \in DOMAIN order_map' \ DOMAIN order_map :
                   LET avg_price == TargetAvgPrice(target, a)
                   IN  IF avg_price = <<0, 1>>
                       THEN order_map'[o].order_type = "MKT"
                       ELSE /\ order_map'[o].order_type = "LMT"
                            /\ order_map'[o].limit_price = avg_price]_vars

\* a limit order was placed on top of an order that is still live (the
\* top-up case)
C23_Witness ==
    \E o1 \in DOMAIN order_map, o2 \in DOMAIN order_map :
        /\ o1 < o2
        /\ broker_orders[o1].status \in {"placed", "working"}
        /\ broker_orders[o2].status \in {"placed", "working"}
        /\ order_map[o2].order_type = "LMT"

\* C24: a Submitted event (OrderStatus Submitted, or OpenOrder in state
\* Submitted / PreSubmitted) creates the open-order row with filled = 0, no
\* executions and the signed total quantity only when the order has no row;
\* a row that exists keeps its filled and its executions
C24_SubmittedRow ==
    [][\A o \in DOMAIN broker_orders :
          OnSubmitted(o) =>
              IF o \in DOMAIN open_orders
              THEN open_orders' = open_orders
              ELSE /\ DOMAIN open_orders' = DOMAIN open_orders \cup {o}
                   /\ \A x \in DOMAIN open_orders : open_orders'[x] = open_orders[x]
                   /\ open_orders'[o].filled = 0
                   /\ open_orders'[o].executions = <<>>
                   /\ open_orders'[o].quantity
                        = IF broker_orders[o].action = "Sell"
                          THEN -broker_orders[o].total
                          ELSE broker_orders[o].total]_vars

\* a Sell order's row after a partial fill, while the broker still reports
\* the order as submitted
C24_Witness ==
    \E o \in DOMAIN open_orders :
        /\ open_orders[o].quantity < 0
        /\ Len(open_orders[o].executions) > 0
        /\ broker_orders[o].status = "working"

\* C25: a Cancelled or ApiCancelled status deletes the order's open-order
\* row, for every security type for which a Submitted event creates one
C25_CancelledRowDeleted ==
    [][\A o \in DOMAIN broker_orders :
          OnCancelledOf(o) => o \notin DOMAIN open_orders']_vars

\* every event the broker produced for order o has been handled
AllEventsHandled(o) ==
    /\ consumer = "running"
    /\ \A i \in 1..Len(subscription) : subscription[i].order_id # o
    /\ \A ev \in helpers : ev.order_id # o
    /\ \A i \in 1..Len(channel) : channel[i].order_id # o

\* C26: once the broker has reported an order as fully filled or cancelled
\* and every event of the order has been handled, the order has no
\* open-order row, however the handlers of its events were interleaved
C26_NoRowForTerminalOrder ==
    \A o \in DOMAIN broker_orders :
        (/\ broker_orders[o].status \in {"filled", "cancelled"}
         /\ AllEventsHandled(o))
            => o \notin DOMAIN open_orders

\* the task has run to its end, spawned store calls included
TaskComplete(task) ==
    /\ task.pc \in {"done", "panicked"}
    /\ task.order_write # "pending"
    /\ task.transaction_write # "pending"

\* the tasks of order o's executions
TasksOf(o) == {t \in 1..Len(attribution_tasks) : attribution_tasks[t].e.order_id = o}

\* every execution of order o has been attributed: its time parsed, its
\* task found the open order, and all the tasks have run to their end
AttributedConcurrently(o) ==
    /\ broker_orders[o].cum > 0
    /\ \A t \in TasksOf(o) : /\ TaskComplete(attribution_tasks[t])
                             /\ attribution_tasks[t].parse = "ok"
                             /\ attribution_tasks[t].open_order # <<>>

\* C27: when the tasks attributing the executions of one order have all run
\* to their end, in whatever interleaving, the state is that of attributing
\* them one after the other: every execution has a transaction of the
\* order's strategy; the row is deleted when the order is complete and
\* otherwise lists every execution id with filled equal to the sum of the
\* shares; and a position built by Buy orders only holds the sum of the
\* shares bought
C27_ConcurrentAttribution ==
    \A o \in DOMAIN broker_orders :
        AttributedConcurrently(o) =>
            /\ \A t \in TasksOf(o) :
                   LET e == attribution_tasks[t].e
                   IN  /\ e.execution_id \in DOMAIN transactions
                       /\ transactions[e.execution_id].strategy = STRAT
            /\ IF broker_orders[o].status = "filled"
               THEN o \notin DOMAIN open_orders
               ELSE /\ o \in DOMAIN open_orders
                    /\ open_orders[o].filled = broker_orders[o].cum
                    /\ \A t \in TasksOf(o) :
                           ~IsNewExecution(open_orders, attribution_tasks[t].e)
            /\ (/\ \A x \in DOMAIN broker_orders :
                       /\ broker_orders[x].action = "Buy"
                       /\ x # o => broker_orders[x].status = "filled"
                                   /\ AttributedConcurrently(x))
                   => LET key == <<broker_orders[o].asset, STRAT, SYMBOL>>
                          SumCum[x \in 0..MaxOrders] ==
                              IF x = 0 THEN 0
                              ELSE SumCum[x - 1] +
                                   (IF x \in DOMAIN broker_orders
                                    THEN broker_orders[x].cum ELSE 0)
                      IN  /\ key \in DOMAIN positions
                          /\ positions[key].quantity = SumCum[MaxOrders]

\* C28: a task that aborted because the execution time or the option right
\* did not parse has applied none of the three writes: the open order is
\* neither updated nor deleted by it and does not list the execution id, no
\* transaction of the execution exists, and the task wrote no position
C28_AllOrNothing ==
    \A t \in 1..Len(attribution_tasks) :
        LET task == attribution_tasks[t]
            e == task.e
        IN  task.pc = "panicked" =>
                /\ task.order_write # "applied"
                /\ e.order_id \in DOMAIN open_orders =>
                       IsNewExecution(open_orders, e)
                /\ e.execution_id \notin DOMAIN transactions
                /\ task.pos = <<>>

\* C29: a position row of a live strategy exists only while the strategy
\* holds something: once its executions in an instrument net to exactly 0
\* (it sold all it had bought, or bought back all it had sold) no row of the
\* strategy and instrument remains
C29_NoZeroPositionRow ==
    \A asset \in Assets :
        TransactionSum(asset, STRAT) = 0 =>
            <<asset, STRAT, SYMBOL>> \notin DOMAIN positions

\* ================================================== open-order reconciliation
MaxOpenOrderEvents == 3

\* Option<T>: None, Some(x) and the value an expect() yields
None == {}

Some(x) == {x}

Unwrap(opt) == CHOOSE x \in opt : TRUE

\* a row the store holds for an order of an earlier session
StoredOpenOrder(o, asset, strategy, filled) ==
    /\ ~engine_built
    /\ o \notin DOMAIN open_orders
    /\ open_orders' = Insert(open_orders, o,
           [strategy |-> strategy, stock |-> SYMBOL, asset |-> asset,
            quantity |-> MaxQty, filled |-> filled, executions |-> <<>>])
    /\ UNCHANGED <<transactions, positions, order_map, brokerVars,
                   placeVars, streamVars>>
    /\ UNCHANGED <<ooVars, ooFrame>>

\* sync_open_orders requests all_open_orders with an empty local map
SyncOpenOrdersBegin ==
    /\ engine_built
    /\ open_orders_pass = "idle"
    /\ open_orders_pass' = "running"
    /\ UNCHANGED <<open_order_events, open_orders_buffer, open_order_tasks>>
    /\ UNCHANGED <<sessionVars, ooFrame>>

\* on_full_open_order_received spawns a task and returns
SpawnOpenOrderTask(tasks, order_data, status) ==
    Append(tasks, [perm_id |-> order_data.perm_id, asset |-> order_data.asset,
                   quantity |-> order_data.quantity,
                   filled_quantity |-> order_data.filled_quantity,
                   status_filled |-> status.filled, done |-> FALSE])

\* Orders::OrderData: with an entry for the perm_id the order is resolved
\* with the entry's OrderStatus, which is expected to be there; without an
\* entry the contract and the order are stored. The entry is never changed
\* or removed afterwards.
OnOrderData(order_data) ==
    /\ open_orders_pass = "running"
    /\ Len(open_order_events) < MaxOpenOrderEvents
    /\ open_order_events' = Append(open_order_events,
                                   [kind |-> "OrderData", perm_id |-> order_data.perm_id])
    /\ IF order_data.perm_id \in DOMAIN open_orders_buffer
       THEN LET entry == open_orders_buffer[order_data.perm_id]
            IN  IF entry.status = None
                THEN /\ open_orders_pass' = "panicked"
                     /\ UNCHANGED <<open_orders_buffer, open_order_tasks>>
                ELSE /\ open_order_tasks' =
                            SpawnOpenOrderTask(open_order_tasks, order_data,
                                               Unwrap(entry.status))
                     /\ UNCHANGED <<open_orders_pass, open_orders_buffer>>
       ELSE /\ open_orders_buffer' = Insert(open_orders_buffer, order_data.perm_id,
                    [order |-> Some(order_data), status |-> None])
            /\ UNCHANGED <<open_orders_pass, open_order_tasks>>
    /\ UNCHANGED <<sessionVars, ooFrame>>

\* Orders::OrderStatus: with an entry for the perm_id the order is resolved
\* with the entry's contract and order, which are expected to be there;
\* without an entry the status is stored
OnOrderStatusOfOpenOrder(order_status) ==
    /\ open_orders_pass = "running"
    /\ Len(open_order_events) < MaxOpenOrderEvents
    /\ open_order_events' = Append(open_order_events,
                                   [kind |-> "OrderStatus", perm_id |-> order_status.perm_id])
    /\ IF order_status.perm_id \in DOMAIN open_orders_buffer
       THEN LET entry == open_orders_buffer[order_status.perm_id]
            IN  IF entry.order = None
                THEN /\ open_orders_pass' = "panicked"
                     /\ UNCHANGED <<open_orders_buffer, open_order_tasks>>
                ELSE /\ open_order_tasks' =
                            SpawnOpenOrderTask(open_order_tasks, Unwrap(entry.order),
                                               order_status)
                     /\ UNCHANGED <<open_orders_pass, open_orders_buffer>>
       ELSE /\ open_orders_buffer' = Insert(open_orders_buffer, order_status.perm_id,
                    [order |-> None, status |-> Some(order_status)])
            /\ UNCHANGED <<open_orders_pass, open_order_tasks>>
    /\ UNCHANGED <<sessionVars, ooFrame>>

\* the subscription ends and sync_open_orders returns
SyncOpenOrdersEnd ==
    /\ open_orders_pass = "running"
    /\ open_orders_pass' = "done"
    /\ UNCHANGED <<open_order_events, open_orders_buffer, open_order_tasks>>
    /\ UNCHANGED <<sessionVars, ooFrame>>

\* the body of the task: without a mapped strategy nothing is written; a
\* stored row gets the status' filled when it differs; a missing row is
\* created with the order's filled_quantity, which fails when the strategy
\* has no row in trading.strategy
ResolveOpenOrder(oo, task) ==
    LET key == <<task.asset, SYMBOL>>
    IN  IF key \notin DOMAIN contract_to_strategy THEN oo
        ELSE IF task.perm_id \in DOMAIN oo
        THEN IF oo[task.perm_id].filled # task.status_filled
             THEN [oo EXCEPT ![task.perm_id].filled = task.status_filled]
             ELSE oo
        ELSE IF contract_to_strategy[key] \notin DOMAIN strategy_status
        THEN oo
        ELSE Insert(oo, task.perm_id,
                 [strategy |-> contract_to_strategy[key], stock |-> SYMBOL,
                  asset |-> task.asset, quantity |-> task.quantity,
                  filled |-> task.filled_quantity, executions |-> <<>>])

\* a spawned task runs
OpenOrderTask(i) ==
    /\ ~open_order_tasks[i].done
    /\ open_orders' = ResolveOpenOrder(open_orders, open_order_tasks[i])
    /\ open_order_tasks' = [open_order_tasks EXCEPT ![i].done = TRUE]
    /\ UNCHANGED <<transactions, positions, order_map, brokerVars,
                   placeVars, streamVars>>
    /\ UNCHANGED <<open_orders_pass, open_order_events, open_orders_buffer, ooFrame>>

OrderDataInputs ==
    [perm_id : OrderIds, asset : Assets, quantity : {MaxQty},
     filled_quantity : {0}]

OrderStatusInputs == [perm_id : OrderIds, filled : 0..1]

NextOpenOrders ==
    \/ \E o \in OrderIds, a \in Assets, f \in 0..1 : StoredOpenOrder(o, a, STRAT, f)
    \/ \E a \in Assets, owners \in SUBSET Strategies : EngineNew(a, owners)
    \/ \E name \in Strategies : StartStrategy(name)
    \/ SyncOpenOrdersBegin
    \/ \E order_data \in OrderDataInputs : OnOrderData(order_data)
    \/ \E order_status \in OrderStatusInputs : OnOrderStatusOfOpenOrder(order_status)
    \/ SyncOpenOrdersEnd
    \/ \E i \in 1..Len(open_order_tasks) : OpenOrderTask(i)

SpecOpenOrders == Init /\ [][NextOpenOrders]_vars

\* ============================================== contract_to_strategy keys
\* SecurityType's Display: the broker's code of the security type
SecurityTypeString(security_type) ==
    CASE security_type = "Stock" -> "STK"
      [] security_type = "Option" -> "OPT"
      [] security_type = "Future" -> "FUT"
      [] security_type = "ForexPair" -> "CASH"

\* the key OrderEngine::new stores a contract under
MapKey(contract) ==
    <<SecurityTypeString(contract[1]),
      IF contract[1] = "Future" THEN "FUT:" \o contract[2] ELSE contract[2]>>

\* the key on_full_open_order_received looks a broker contract up with
LookupKey(contract) == <<SecurityTypeString(contract[1]), contract[2]>>

\* the inner loop of OrderEngine::new over the contracts of one strategy: a
\* key that is taken changes hands only to a greater strategy
RECURSIVE InsertContracts(_, _, _)
InsertContracts(map, strategy, contracts) ==
    IF contracts = {} THEN map
    ELSE LET contract == CHOOSE c \in contracts : TRUE
             key == MapKey(contract)
             next == IF key \in DOMAIN map
                     THEN IF StrategyRank(strategy.name) > StrategyRank(map[key])
                          THEN Insert(map, key, strategy.name)
                          ELSE map
                     ELSE Insert(map, key, strategy.name)
         IN  InsertContracts(next, strategy, contracts \ {contract})

\* the outer loop of OrderEngine::new over the list of active strategies
RECURSIVE BuildContractToStrategy(_, _)
BuildContractToStrategy(map, strategies) ==
    IF strategies = <<>> THEN map
    ELSE BuildContractToStrategy(
             InsertContracts(map, Head(strategies), Head(strategies).contracts),
             Tail(strategies))

\* OrderEngine::new with a list of active strategies
OrderEngineNew(strategies) ==
    /\ ~engine_built
    /\ engine_built' = TRUE
    /\ active_strategies' = strategies
    /\ contract_to_strategy' = BuildContractToStrategy(EmptyTable, strategies)
    /\ UNCHANGED <<sessionVars, sync_runs, engFrame>>

\* the contracts a strategy may return from get_contracts
ContractChoices == {<<security_type, SYMBOL>> : security_type \in SecurityTypes}

\* the lists of distinct active strategies, each with its contracts
StrategyLists ==
    {<<>>}
    \cup {<<[name |-> n, contracts |-> c]>> :
              n \in Strategies, c \in SUBSET ContractChoices}
    \cup {<<[name |-> pair[1], contracts |-> c], [name |-> pair[2], contracts |-> d]>> :
              pair \in {p \in Strategies \X Strategies : p[1] # p[2]},
              c \in SUBSET ContractChoices, d \in SUBSET ContractChoices}

NextEngine ==
    \/ \E strategies \in StrategyLists : OrderEngineNew(strategies)
    \/ \E a \in Assets, q \in (-MaxPos)..MaxPos : SyncPositions(a, q)

SpecEngine == Init /\ [][NextEngine]_vars

\* ====================================================== stream stall handling
MaxStalls == 3

MaxStreamBars == 3

StallTimeoutSecs == 20

\* subscription.error() after next_timeout returned None
StreamErrors == {"none", "no_security_definition", "other"}

\* the thread starts with its first realtime_bars request; a failed request
\* is logged and the thread ends
StartStreamThread(request_ok) ==
    /\ rt_thread = "not_started"
    /\ rt_requests' = rt_requests + 1
    /\ IF request_ok
       THEN /\ rt_thread' = "listening"
            /\ UNCHANGED rt_end_reason
       ELSE /\ rt_thread' = "ended"
            /\ rt_end_reason' = "request_failed"
    /\ UNCHANGED <<rt_cancels, rt_bars, rt_stalls, rt_wait>>
    /\ UNCHANGED <<sessionVars, rtFrame>>

\* time passes while next_timeout waits, up to its timeout
StreamWait ==
    /\ rt_thread = "listening"
    /\ rt_wait < StallTimeoutSecs
    /\ rt_wait' = rt_wait + BarSecs
    /\ UNCHANGED <<rt_thread, rt_requests, rt_cancels, rt_bars, rt_stalls,
                   rt_end_reason>>
    /\ UNCHANGED <<sessionVars, rtFrame>>

\* next_timeout(20 s) yields a bar, and the next call waits anew
StreamBar ==
    /\ rt_thread = "listening"
    /\ rt_bars < MaxStreamBars
    /\ rt_bars' = rt_bars + 1
    /\ rt_wait' = 0
    /\ UNCHANGED <<rt_thread, rt_requests, rt_cancels, rt_stalls, rt_end_reason>>
    /\ UNCHANGED <<sessionVars, rtFrame>>

\* next_timeout(20 s) yields None, after 20 s without a bar or at once when
\* the subscription has failed: with the error 'no security definition has
\* been found' the loop is left; otherwise the subscription is cancelled
\* and requested again, and a failed request leaves the loop as well
StreamTimeout(error, request_ok) ==
    /\ rt_thread = "listening"
    /\ rt_stalls < MaxStalls
    /\ error = "none" => rt_wait = StallTimeoutSecs
    /\ rt_wait' = 0
    /\ rt_stalls' = rt_stalls + 1
    /\ IF error = "no_security_definition"
       THEN /\ rt_thread' = "ended"
            /\ rt_end_reason' = "no_security_definition"
            /\ UNCHANGED <<rt_requests, rt_cancels>>
       ELSE /\ rt_cancels' = rt_cancels + 1
            /\ rt_requests' = rt_requests + 1
            /\ IF request_ok
               THEN UNCHANGED <<rt_thread, rt_end_reason>>
               ELSE /\ rt_thread' = "ended"
                    /\ rt_end_reason' = "request_failed"
    /\ UNCHANGED rt_bars
    /\ UNCHANGED <<sessionVars, rtFrame>>

NextStall ==
    \/ \E request_ok \in BOOLEAN : StartStreamThread(request_ok)
    \/ StreamWait
    \/ StreamBar
    \/ \E error \in StreamErrors, request_ok \in BOOLEAN :
           StreamTimeout(error, request_ok)

SpecStall == Init /\ [][NextStall]_vars

\* ==================================================== order-event backlog
\* init_order_update_stream under load, for events whose handler writes
\* nothing (OrderUpdate::Message): only their numbers matter
MaxInFlight == 102

\* the events a slow consumer gets through meanwhile
MaxHandled == 2

\* the broker publishes an event on the order update stream
BrokerMessage ==
    /\ event_backlog + sender_threads + queued_events < MaxInFlight
    /\ event_backlog' = event_backlog + 1
    /\ UNCHANGED <<sender_threads, queued_events, handled_events>>
    /\ UNCHANGED <<sessionVars, bpFrame>>

\* the feeder thread: event_subscription.next(), then thread::spawn of a
\* helper that owns the event; the feeder itself never sends
FeederSpawn ==
    /\ event_backlog > 0
    /\ event_backlog' = event_backlog - 1
    /\ sender_threads' = sender_threads + 1
    /\ UNCHANGED <<queued_events, handled_events>>
    /\ UNCHANGED <<sessionVars, bpFrame>>

\* a helper thread: blocking_send returns once the channel has room
HelperBlockingSend ==
    /\ sender_threads > 0
    /\ queued_events < ChannelCapacity
    /\ sender_threads' = sender_threads - 1
    /\ queued_events' = queued_events + 1
    /\ UNCHANGED <<event_backlog, handled_events>>
    /\ UNCHANGED <<sessionVars, bpFrame>>

\* the consumer task: rx.recv().await and the handling of the event
ConsumerHandle ==
    /\ queued_events > 0
    /\ handled_events < MaxHandled
    /\ queued_events' = queued_events - 1
    /\ handled_events' = handled_events + 1
    /\ UNCHANGED <<event_backlog, sender_threads>>
    /\ UNCHANGED <<sessionVars, bpFrame>>

NextBacklog ==
    \/ BrokerMessage
    \/ FeederSpawn
    \/ HelperBlockingSend
    \/ ConsumerHandle

SpecBacklog == Init /\ [][NextBacklog]_vars

\* ========================================================= supervisor loop
MaxCalendarDay == 2

MaxStarts == 3

market_open_hour == 9

market_close_hour == 16

HoursPerDay == 24

\* the days of the calendar on which is_busday is false
NonBusinessDays == {1}

is_busday(day) == day \notin NonBusinessDays

\* the first trading day after `day`
RECURSIVE NextBusday(_)
NextBusday(day) == IF is_busday(day + 1) THEN day + 1 ELSE NextBusday(day + 1)

\* the clock passes a market open when it reaches market_open_hour on a
\* trading day
ReachesOpen(day, hour) == is_busday(day) /\ hour = market_open_hour

\* an hour passes before main is launched, while the gateway starts or
\* while the session runs; main takes no time between a login failure and
\* its next sleep_until_next_market_open
HourPasses ==
    /\ supervisor \in {"start", "running"} \/ gateway_starts = 0
    /\ LET day == IF now_hour + 1 = HoursPerDay THEN now_day + 1 ELSE now_day
           hour == (now_hour + 1) % HoursPerDay
       IN  /\ day <= MaxCalendarDay
           /\ now_day' = day
           /\ now_hour' = hour
           /\ market_opens' = IF ReachesOpen(day, hour)
                              THEN market_opens + 1 ELSE market_opens
    /\ UNCHANGED <<supervisor, gateway_starts, login_failed, opens_at_failure>>
    /\ UNCHANGED <<sessionVars, supFrame>>

\* sleep_until_next_market_open: returns at once on a trading day after
\* market_open_hour and before market_close_hour; sleeps until today's open
\* before market_open_hour on a trading day; sleeps until the open of the
\* next trading day otherwise
sleep_until_next_market_open ==
    /\ supervisor = "top"
    /\ IF is_busday(now_day) /\ now_hour > market_open_hour
          /\ now_hour < market_close_hour
       THEN UNCHANGED <<now_day, now_hour, market_opens>>
       ELSE IF now_hour < market_open_hour /\ is_busday(now_day)
       THEN /\ now_hour' = market_open_hour
            /\ market_opens' = market_opens + 1
            /\ UNCHANGED now_day
       ELSE /\ NextBusday(now_day) <= MaxCalendarDay
            /\ now_day' = NextBusday(now_day)
            /\ now_hour' = market_open_hour
            /\ market_opens' = market_opens + 1
    /\ supervisor' = "start"
    /\ UNCHANGED <<gateway_starts, login_failed, opens_at_failure>>
    /\ UNCHANGED <<sessionVars, supFrame>>

\* IBGateway::start: Err ends main; Ok with success false is the login
\* failure, after which main continues its loop; Ok with success true lets
\* main initialise and start the engine
GatewayStart(result) ==
    /\ supervisor = "start"
    /\ gateway_starts < MaxStarts
    /\ gateway_starts' = gateway_starts + 1
    /\ supervisor' = CASE result = "error" -> "stopped"
                       [] result = "login_failed" -> "top"
                       [] result = "logged_in" -> "running"
    /\ login_failed' = (result = "login_failed")
    /\ opens_at_failure' = IF result = "login_failed"
                           THEN market_opens ELSE opens_at_failure
    /\ UNCHANGED <<now_day, now_hour, market_opens>>
    /\ UNCHANGED <<sessionVars, supFrame>>

GatewayResults == {"error", "login_failed", "logged_in"}

\* sleep_until_market_close, the end-of-day syncs and the teardown; the
\* loop starts over
SessionEnd ==
    /\ supervisor = "running"
    /\ now_hour' = IF now_hour < market_close_hour
                   THEN market_close_hour ELSE now_hour
    /\ supervisor' = "top"
    /\ UNCHANGED <<now_day, gateway_starts, login_failed, market_opens,
                   opens_at_failure>>
    /\ UNCHANGED <<sessionVars, supFrame>>

NextSupervisor ==
    \/ HourPasses
    \/ sleep_until_next_market_open
    \/ \E result \in GatewayResults : GatewayStart(result)
    \/ SessionEnd

SpecSupervisor == Init /\ [][NextSupervisor]_vars

\* the stream threads serving an instrument
ThreadsOf(threads, contract) ==
    {k \in 1..Len(threads) : threads[k] = contract}

\* C30: every subscribe_to_data call records the subscriber; the first call
\* for an instrument spawns the instrument's one stream thread and creates
\* its one deque; a later call for the instrument, at any timestep and by
\* any strategy, spawns no thread and creates no deque; and a repeated
\* identical call changes nothing
C30_SubscriptionRegistry ==
    [][\A strategy \in Strategies, contract \in Instruments,
          timestep \in Timesteps :
          SubscribeToData(strategy, contract, timestep) =>
              /\ AlreadySubscribed(subscriptions', strategy, contract, timestep)
              /\ Cardinality(ThreadsOf(stream_threads', contract)) = 1
              /\ contract \in DOMAIN live_data'
              /\ contract \in DOMAIN subscriptions =>
                     UNCHANGED <<live_data, stream_threads>>
              /\ AlreadySubscribed(subscriptions, strategy, contract, timestep)
                     => UNCHANGED regVars]_vars

\* C31: a strategy subscribed at timestep T is dispatched a bar only when
\* the bar's minute offset from 09:30 is non-negative and divisible by T,
\* and only after the bar has been persisted
C31_BarDispatch ==
    \A task \in strategy_tasks :
        LET bar_minute == task.time - BarMinutes
        IN  /\ bar_minute >= 0
            /\ bar_minute % task.timestep = 0
            /\ <<task.contract, bar_minute>> \in historical_rows

\* C32: after strategy.on_bar_update has returned, place_orders_for_strategy
\* has been invoked exactly when it returned Ok with updated == true
C32_PlaceOnlyWhenUpdated ==
    \A task \in strategy_tasks :
        task.result # "pending" => (task.placed <=> task.result = "updated")

\* C33: while the loop runs, rows do not wait in the buffer for longer than
\* about MAX_BATCH_WAIT_MS (here: twice that), however often rows arrive
C33_TimerFlush ==
    (batch_loop = "running" /\ batch_buffer # <<>>) =>
        buffer_age <= 2 * MAX_BATCH_WAIT_MS

\* the rows waiting in the channel or in the buffer
PendingRows ==
    {ingest_channel[i] : i \in 1..Len(ingest_channel)}
        \cup {batch_buffer[i] : i \in 1..Len(batch_buffer)}

\* C34: while the loop runs, a failed flush loses no row: every accepted row
\* is stored or still waits in the channel or the buffer
C34_FlushFailureKeepsRows ==
    batch_loop = "running" => accepted_rows \subseteq (stored_rows \cup PendingRows)

\* C35: once the shutdown signal has been processed, and no flush has
\* failed, every row batch_create_or_update returned Ok for is in the store
C35_ShutdownFlushesAll ==
    (batch_loop = "ended" /\ ~flush_error_logged) => accepted_rows \subseteq stored_rows

\* the events of one kind the subscription has yielded for a perm_id
EventsOf(kind, perm_id) ==
    {i \in 1..Len(open_order_events) :
        open_order_events[i] = [kind |-> kind, perm_id |-> perm_id]}

\* the tasks that resolve a perm_id
ResolutionsOf(perm_id) ==
    {i \in 1..Len(open_order_tasks) : open_order_tasks[i].perm_id = perm_id}

\* C36: whatever the order and the number of the OrderData and OrderStatus
\* events of a perm_id, the pass is not aborted, the order is resolved at
\* most once, and it is resolved once both kinds of event have arrived
C36_PairByPermId ==
    /\ open_orders_pass # "panicked"
    /\ \A o \in OrderIds :
           /\ Cardinality(ResolutionsOf(o)) <= 1
           /\ (EventsOf("OrderData", o) # {} /\ EventsOf("OrderStatus", o) # {})
                  => Cardinality(ResolutionsOf(o)) = 1

\* the list with its two strategies swapped
Swapped(strategies) ==
    IF Len(strategies) = 2 THEN <<strategies[2], strategies[1]>> ELSE strategies

\* the strategies of the list that return a contract of the key
Claimants(strategies, key) ==
    {strategies[i].name : i \in
        {j \in 1..Len(strategies) :
            \E c \in strategies[j].contracts : MapKey(c) = key}}

\* C37: once the engine is built, every key maps to the greatest strategy
\* that claims it, the map is the same for the list in the other order and
\* stays as built, and the lookup with a contract's (security_type, symbol)
\* finds an entry for every contract a listed strategy returns
C37_TieBreakAndLookup ==
    (engine_built /\ active_strategies # <<>>) =>
        /\ contract_to_strategy =
               BuildContractToStrategy(EmptyTable, Swapped(active_strategies))
        /\ contract_to_strategy =
               BuildContractToStrategy(EmptyTable, active_strategies)
        /\ \A key \in DOMAIN contract_to_strategy :
               contract_to_strategy[key] = Winner(Claimants(active_strategies, key))
        /\ \A i \in 1..Len(active_strategies) :
               \A c \in active_strategies[i].contracts :
                   LookupKey(c) \in DOMAIN contract_to_strategy

\* C38: a stall without the 'no security definition' error cancels the
\* subscription, requests a new one and leaves the thread listening, and
\* the thread ends only on that error
C38_StallResubscribes ==
    [][/\ (rt_thread = "listening" /\ rt_stalls' = rt_stalls + 1
              /\ rt_end_reason' # "no_security_definition")
          => (/\ rt_cancels' = rt_cancels + 1
              /\ rt_requests' = rt_requests + 1
              /\ rt_thread' = "listening")
       /\ (rt_thread = "listening" /\ rt_thread' = "ended")
          => rt_end_reason' = "no_security_definition"]_vars

\* C39: while the channel is full the feeder takes no further event from
\* the broker subscription, so that besides the queued events at most the
\* one event of a blocked sender is in flight
C39_Backpressure ==
    queued_events = ChannelCapacity => sender_threads <= 1

\* C40: after a login failure the engine is not started, and the gateway is
\* not started again before a market open has passed since the failure
C40_NoRestartBeforeOpen ==
    [][/\ (login_failed /\ gateway_starts' = gateway_starts + 1)
          => market_opens > opens_at_failure
       /\ (gateway_starts' = gateway_starts + 1 /\ login_failed')
          => supervisor' # "running"]_vars

====
